---- MODULE Spec2Model ----
(***************************************************************************)
(* The asynchronous scheduler of softlab.huo (control points, action       *)
(* runners, the scheduler itself), the run_process driver over a           *)
(* SimpleProcess leaf, the composite processes (Series, Parallel, Switch,   *)
(* Sweep) over SimpleProcess leaves, and the flow of the scheduler         *)
(* module's demo (build a graph of actions, wait for its final points),    *)
(* as state machines.                                                      *)
(*                                                                         *)
(* The caller's thread makes the scheduler's synchronous calls; the event  *)
(* loop (runner tasks, done callbacks, the wait task) only runs while the  *)
(* caller is blocked in wait_point (loop.run_until_complete).              *)
(***************************************************************************)
EXTENDS Integers, FiniteSets, Sequences, TLC

\* Bounds of the model: how many control points and runners are ever created.
MaxPoints == 2
MaxRunners == 2

PointIds == 1..MaxPoints
RunnerIds == 1..MaxRunners

\* The empty point key '' of an Action ("no predecessor" / "no successor").
EmptyKey == 0

\* Keys a caller may pass: the empty key, keys of acquired points, and keys
\* that name no point.
Keys == 0..MaxPoints

\* count argument of acquire_points: negative, zero, or positive.
Counts == (0 - 1)..MaxPoints

\* timeout argument of wait / wait_point: None, zero, or positive.
Timeouts == {"None", "zero", "positive"}

VARIABLES
    running,     \* _SchedulerImpl._running
    points,      \* keys of _SchedulerImpl._points
    runners,     \* keys of _SchedulerImpl._runners
    pt,          \* every _CtrlPoint ever created, by id
    rn,          \* every _ActionRunner ever created, by id
    nextPoint,   \* next unused point id (uuid4 of _CtrlPoint)
    nextRunner,  \* next unused runner id (uuid4 of _ActionRunner)
    main,        \* where the caller's thread is
    waiter,      \* the wait task run by run_until_complete
    ret,         \* outcome of the caller's last call that reported one
    sp,          \* the SimpleProcess driven by run_process
    cfg,         \* the process tree built by the caller, with its callables
    node,        \* the fields of every process of the tree, by node
    drv,         \* the caller's position inside join / run_process of the tree
    hist         \* the sweeper's own index, and what happened since reset()

vars == <<running, points, runners, pt, rn, nextPoint, nextRunner,
          main, waiter, ret, sp, cfg, node, drv, hist>>

procVars == <<cfg, node, drv, hist>>

schedVars == <<running, points, runners, pt, rn, nextPoint, nextRunner>>

----------------------------------------------------------------------------
\* _CtrlPoint

\* _CtrlPoint.__init__: a pending future, no registration.
NewPoint ==
    [future |-> "pending", exc |-> 0, count |-> 0,
     previous |-> {}, posts |-> {}]

\* _CtrlPoint.is_done
is_done(P, p) == P[p].future # "pending"

\* _CtrlPoint.status: None while not done, False with an exception, True with
\* a result; Future.exception() of a cancelled future raises CancelledError.
status(P, p) ==
    IF P[p].future = "pending" THEN "None"
    ELSE IF P[p].future = "cancelled" THEN "CancelledError"
    ELSE IF P[p].future = "exception" THEN "False"
    ELSE "True"

\* _CtrlPoint.add_previous
add_previous(P, p, id) ==
    [P EXCEPT ![p].previous = @ \cup {id}, ![p].count = @ + 1]

\* _CtrlPoint.add_post
add_post(P, p, id) ==
    [P EXCEPT ![p].posts = @ \cup {id}]

\* A plausible slip in finish: the point succeeds on the first success.
finish_first_success(P, p, exp) ==
    IF P[p].future # "pending" THEN P
    ELSE IF exp # 0 THEN [P EXCEPT ![p].future = "exception", ![p].exc = exp]
    ELSE [P EXCEPT ![p].count = IF @ > 0 THEN @ - 1 ELSE @,
                   ![p].future = "result"]

\* _CtrlPoint.finish(exp): exp = 0 is None, exp = r is the exception raised
\* by the body of runner r.
finish(P, p, exp) ==
    IF P[p].future # "pending" THEN P
    ELSE IF exp # 0
         THEN [P EXCEPT ![p].future = "exception", ![p].exc = exp]
    ELSE IF P[p].count > 0
         THEN [P EXCEPT ![p].count = @ - 1,
                        ![p].future = IF P[p].count - 1 = 0
                                      THEN "result" ELSE @]
    ELSE P

\* A plausible slip in cancel: the done() guard is missing.
cancel_unguarded(P, p) ==
    [P EXCEPT ![p].future = "cancelled", ![p].exc = 0]

\* _CtrlPoint.cancel
cancel(P, p) ==
    IF P[p].future = "pending"
    THEN [P EXCEPT ![p].future = "cancelled"]
    ELSE P

----------------------------------------------------------------------------
\* _ActionRunner

\* A runner id that names no runner yet.
NoRunner ==
    [prev |-> 0, post |-> 0, to_thread |-> FALSE, func |-> "none",
     status |-> "None", exp |-> "None", pc |-> "none", task |-> "none",
     cancelReq |-> FALSE, cbPending |-> FALSE, bodyRuns |-> 0,
     reported |-> "none"]

\* _ActionRunner.__init__: the task is created, nothing has run.
NewRunner(prev, post, thread, func) ==
    [prev |-> prev, post |-> post, to_thread |-> thread, func |-> func,
     status |-> "None", exp |-> "None", pc |-> "created", task |-> "pending",
     cancelReq |-> FALSE, cbPending |-> FALSE, bodyRuns |-> 0,
     reported |-> "none"]

\* _ActionRunner.is_done
task_done(R, r) == R[r].pc = "done"

----------------------------------------------------------------------------
\* Initial state: get_scheduler() has built the scheduler, nothing started.

NoWaiter == [point |-> 0, timeout |-> "None", pc |-> "none"]

NoRet == [op |-> "none", val |-> "none"]

\* SimpleProcess.__init__
NewProcess ==
    [begin_point |-> 0, end_point |-> 0, finished |-> FALSE,
     running |-> FALSE, aborting |-> FALSE]

\* No process tree has been built.
NoTree == [tree |-> <<>>, decision |-> 0, plan |-> <<>>, asserts |-> TRUE]

\* The caller is inside no join and no run_process of a tree.
NoDrive == [mode |-> "none", stack |-> <<>>, ticks |-> 0, idle |-> FALSE]

\* Nothing was called yet.
NoHist ==
    [sweeper_index |-> 0, sweeper_calls |-> 0, sweeper_trues |-> 0,
     switcher_calls |-> 0, commits |-> <<>>, last |-> {}, raised |-> FALSE]

Init ==
    /\ running = FALSE
    /\ points = {}
    /\ runners = {}
    /\ pt = [p \in PointIds |-> NewPoint]
    /\ rn = [r \in RunnerIds |-> NoRunner]
    /\ nextPoint = 1
    /\ nextRunner = 1
    /\ main = "idle"
    /\ waiter = NoWaiter
    /\ ret = NoRet
    /\ sp = NewProcess
    /\ cfg = NoTree
    /\ node = <<>>
    /\ drv = NoDrive
    /\ hist = NoHist

----------------------------------------------------------------------------
\* _SchedulerImpl: each method as a function of the scheduler's state S.

Sched ==
    [running |-> running, points |-> points, runners |-> runners,
     pt |-> pt, rn |-> rn, nextPoint |-> nextPoint,
     nextRunner |-> nextRunner]

SetSched(S) ==
    /\ running' = S.running
    /\ points' = S.points
    /\ runners' = S.runners
    /\ pt' = S.pt
    /\ rn' = S.rn
    /\ nextPoint' = S.nextPoint
    /\ nextRunner' = S.nextRunner

\* _SchedulerImpl.start
start(S) == [S EXCEPT !.running = TRUE]

\* A plausible slip in _ActionRunner.cancel: the runner is marked failed but
\* the cancellation of its task is not requested.
runner_cancel_no_task_cancel(R, r) ==
    IF R[r].pc # "done"
    THEN [R EXCEPT ![r].status = "False",
                   ![r].exp = "CancelledErrorClass"]
    ELSE R

\* _ActionRunner.cancel: a task that is not done is marked failed with the
\* CancelledError class as its error and its cancellation is requested.
runner_cancel(R, r) ==
    IF R[r].pc # "done"
    THEN [R EXCEPT ![r].status = "False",
                   ![r].exp = "CancelledErrorClass",
                   ![r].cancelReq = TRUE]
    ELSE R

\* A plausible slip in stop: the points are dropped without being cancelled.
stop_drop_points(S) ==
    [S EXCEPT !.rn = [r \in RunnerIds |->
                         IF r \in S.runners THEN runner_cancel(S.rn, r)[r]
                         ELSE S.rn[r]],
              !.runners = {}, !.points = {}, !.running = FALSE]

\* _SchedulerImpl.stop: cancel every runner of the map (Task.cancel of a task
\* suspended on its begin point cancels that point's future), cancel every
\* point of the map, clear both maps, clear the running flag.
stop(S) ==
    LET awaited == {S.rn[r].prev : r \in {x \in S.runners :
                                            S.rn[x].pc = "waitprev"}}
    IN [S EXCEPT
          !.rn = [r \in RunnerIds |->
                     IF r \in S.runners THEN runner_cancel(S.rn, r)[r]
                     ELSE S.rn[r]],
          !.runners = {},
          !.pt = [p \in PointIds |->
                     IF p \in awaited \cup S.points THEN cancel(S.pt, p)[p]
                     ELSE S.pt[p]],
          !.points = {},
          !.running = FALSE]

\* A plausible slip in acquire_point: the key of a point that is no longer
\* in the point map is handed out again.
acquire_point_reuse(S) ==
    LET free == {k \in DOMAIN S.pt : k < S.nextPoint /\ k \notin S.points}
        key == IF free = {} THEN S.nextPoint
               ELSE CHOOSE k \in free : \A j \in free : k <= j
    IN [key |-> key,
        S |-> [S EXCEPT !.pt[key] = NewPoint,
                        !.points = @ \cup {key},
                        !.nextPoint = IF key = S.nextPoint THEN @ + 1
                                      ELSE @]]

\* _SchedulerImpl.acquire_point: the new point's key and the new state.
acquire_point(S) ==
    [key |-> S.nextPoint,
     S |-> [S EXCEPT !.pt[S.nextPoint] = NewPoint,
                     !.points = @ \cup {S.nextPoint},
                     !.nextPoint = @ + 1]]

RECURSIVE acquire_each(_, _)
\* `tuple(map(lambda _: self.acquire_point(), range(cnt)))`: the keys in the
\* order acquired, and the new state.
acquire_each(S, cnt) ==
    IF cnt = 0 THEN [keys |-> <<>>, S |-> S]
    ELSE LET a == acquire_point(S)
             rest == acquire_each(a.S, cnt - 1)
         IN [keys |-> <<a.key>> \o rest.keys, S |-> rest.S]

\* Scheduler.acquire_points(count): the tuple of keys, or TypeError for a
\* count that is not positive.
acquire_points(S, count) ==
    IF count > 0
    THEN [val |-> "keys", keys |-> acquire_each(S, count).keys,
          S |-> acquire_each(S, count).S]
    ELSE [val |-> "TypeError", keys |-> <<>>, S |-> S]

\* A plausible slip in commit_action: the end point key is only checked
\* after the runner has registered on the begin point.
commit_action_late_check(S, begin, end, thread, func) ==
    IF ~S.running THEN [val |-> "False", S |-> S]
    ELSE IF begin # EmptyKey /\ begin \notin S.points
    THEN [val |-> "ValueError", S |-> S]
    ELSE LET id == S.nextRunner
             P1 == IF begin # EmptyKey THEN add_post(S.pt, begin, id)
                   ELSE S.pt
             P2 == IF end # EmptyKey THEN add_previous(P1, end, id) ELSE P1
         IN IF end # EmptyKey /\ end \notin S.points
            THEN [val |-> "ValueError", S |-> [S EXCEPT !.pt = P1]]
            ELSE [val |-> "True",
                  S |-> [S EXCEPT !.pt = P2,
                                  !.rn[id] = NewRunner(begin, end, thread,
                                                       func),
                                  !.runners = @ \cup {id},
                                  !.nextRunner = @ + 1]]

\* _SchedulerImpl.commit_action: the returned value (or the error raised) and
\* the new state. _ActionRunner.__init__ registers on both points and creates
\* the task.
commit_action(S, begin, end, thread, func) ==
    IF ~S.running THEN [val |-> "False", S |-> S]
    ELSE IF \/ (begin # EmptyKey /\ begin \notin S.points)
            \/ (end # EmptyKey /\ end \notin S.points)
    THEN [val |-> "ValueError", S |-> S]
    ELSE LET id == S.nextRunner
             P1 == IF begin # EmptyKey THEN add_post(S.pt, begin, id)
                   ELSE S.pt
             P2 == IF end # EmptyKey THEN add_previous(P1, end, id) ELSE P1
         IN [val |-> "True",
             S |-> [S EXCEPT !.pt = P2,
                             !.rn[id] = NewRunner(begin, end, thread, func),
                             !.runners = @ \cup {id},
                             !.nextRunner = @ + 1]]

\* A plausible slip in wait_point: the running flag is not checked.
wait_point_no_running_check(S, key) ==
    IF key = EmptyKey THEN "ValueError"
    ELSE IF key \notin S.points THEN "ValueError"
    ELSE IF ~is_done(S.pt, key) THEN "block"
    ELSE status(S.pt, key)

\* _SchedulerImpl.wait_point up to run_until_complete: the value returned or
\* the error raised at once, or "block" when the wait task has to be run.
wait_point(S, key) ==
    IF ~S.running THEN "RuntimeError"
    ELSE IF key = EmptyKey THEN "ValueError"
    ELSE IF key \notin S.points THEN "ValueError"
    ELSE IF ~is_done(S.pt, key) THEN "block"
    ELSE status(S.pt, key)

\* A plausible slip in clear_done_points: the filter keeps the done points
\* instead of the pending ones.
clear_done_points_keep_done(S) ==
    [S EXCEPT !.points = {p \in S.points : is_done(S.pt, p)}]

\* _SchedulerImpl.clear_done_points
clear_done_points(S) ==
    [S EXCEPT !.points = {p \in S.points : ~is_done(S.pt, p)}]

\* A plausible slip in trigger_post: a captured error is reported as success.
trigger_post_always_finish(P, R, r) ==
    IF task_done(R, r) /\ R[r].post # 0
    THEN finish(P, R[r].post, 0)
    ELSE P

\* _ActionRunner.trigger_post: the points after the runner has reported.
trigger_post(P, R, r) ==
    IF task_done(R, r) /\ R[r].post # 0
    THEN IF R[r].status = "True" THEN finish(P, R[r].post, 0)
         ELSE IF R[r].exp = "Exception" THEN finish(P, R[r].post, r)
         ELSE cancel(P, R[r].post)
    ELSE P

\* Which call of the end point trigger_post made (kept for observation).
post_call(R, r) ==
    IF task_done(R, r) /\ R[r].post # 0
    THEN IF R[r].status = "True" THEN "finish"
         ELSE IF R[r].exp = "Exception" THEN "finish_exp"
         ELSE "cancel"
    ELSE "none"

\* A plausible slip in finish_action: the runner is looked up with get
\* instead of pop, and stays in the runner map.
finish_action_no_pop(S, id) ==
    IF id \in S.runners
    THEN [S EXCEPT !.pt = trigger_post(S.pt, S.rn, id),
                   !.rn[id].reported = post_call(S.rn, id)]
    ELSE S

\* A plausible slip in finish_action: when a runner reports an error, the
\* other runners feeding its end point are cancelled.
finish_action_cancel_siblings(S, id) ==
    IF id \in S.runners
    THEN [S EXCEPT !.runners = @ \ {id},
                   !.pt = trigger_post(S.pt, S.rn, id),
                   !.rn = [r \in DOMAIN S.rn |->
                             IF r = id
                             THEN [S.rn[r] EXCEPT
                                      !.reported = post_call(S.rn, id)]
                             ELSE IF /\ S.rn[id].exp = "Exception"
                                     /\ S.rn[id].post # 0
                                     /\ S.rn[r].post = S.rn[id].post
                                     /\ r \in S.runners
                             THEN runner_cancel(S.rn, r)[r]
                             ELSE S.rn[r]]]
    ELSE S

\* _SchedulerImpl.finish_action: pop the runner, let it trigger its end point.
finish_action(S, id) ==
    IF id \in S.runners
    THEN [S EXCEPT !.runners = @ \ {id},
                   !.pt = trigger_post(S.pt, S.rn, id),
                   !.rn[id].reported = post_call(S.rn, id)]
    ELSE S

----------------------------------------------------------------------------
\* The caller's thread. Its calls run to completion while the event loop is
\* not running; wait_point blocks in run_until_complete and the loop runs.

LoopRunning == main \in {"wait_api", "wait_rp", "wait_join", "wait_other"}

callerVars == <<main, waiter, ret, sp, procVars>>

\* start()
Start ==
    /\ main = "idle"
    /\ SetSched(start(Sched))
    /\ ret' = [op |-> "start", val |-> "True"]
    /\ UNCHANGED <<main, waiter, sp, procVars>>

\* stop()
Stop ==
    /\ main = "idle"
    /\ SetSched(stop(Sched))
    /\ ret' = [op |-> "stop", val |-> "None"]
    /\ UNCHANGED <<main, waiter, sp, procVars>>

\* acquire_point()
AcquirePoint ==
    /\ main = "idle"
    /\ nextPoint <= MaxPoints
    /\ SetSched(acquire_point(Sched).S)
    /\ ret' = [op |-> "acquire_point", val |-> "key"]
    /\ UNCHANGED <<main, waiter, sp, procVars>>

\* acquire_points(count)
AcquirePoints(count) ==
    /\ main = "idle"
    /\ count > 0 => nextPoint + count - 1 <= MaxPoints
    /\ LET a == acquire_points(Sched, count)
       IN /\ SetSched(a.S)
          /\ ret' = [op |-> "acquire_points", val |-> a.val,
                     keys |-> a.keys]
    /\ UNCHANGED <<main, waiter, sp, procVars>>

\* commit_action(Action(begin, end, thread, func)) with a caller's function.
CommitAction(begin, end, thread) ==
    /\ main = "idle"
    /\ nextRunner <= MaxRunners
    /\ LET c == commit_action(Sched, begin, end, thread, "user")
       IN /\ SetSched(c.S)
          /\ ret' = [op |-> "commit_action", val |-> c.val]
    /\ UNCHANGED <<main, waiter, sp, procVars>>

\* clear_done_points()
ClearDonePoints ==
    /\ main = "idle"
    /\ SetSched(clear_done_points(Sched))
    /\ ret' = [op |-> "clear_done_points", val |-> "None"]
    /\ UNCHANGED <<main, waiter, sp, procVars>>

\* wait_point(key, timeout): returns or raises at once, or runs the loop on
\* the wait task val.wait(timeout).
WaitPoint(key, timeout) ==
    /\ main = "idle"
    /\ LET w == wait_point(Sched, key)
       IN IF w = "block"
          THEN /\ main' = "wait_api"
               /\ waiter' = [point |-> key, timeout |-> timeout,
                             pc |-> "start"]
               /\ ret' = [op |-> "wait_point", val |-> "blocked"]
          ELSE /\ ret' = [op |-> "wait_point", val |-> w]
               /\ UNCHANGED <<main, waiter>>
    /\ UNCHANGED <<schedVars, sp, procVars>>

----------------------------------------------------------------------------
\* run_process on the SimpleProcess

\* SimpleProcess.reset
reset(q) ==
    IF q.running THEN [q EXCEPT !.aborting = TRUE]
    ELSE [q EXCEPT !.finished = FALSE]

\* SimpleProcess.has_more
has_more(q) == ~q.finished

\* SimpleProcess.commit: the returned value, the process and the scheduler.
commit(q, S) ==
    IF ~q.finished /\ ~q.running
    THEN LET a == acquire_point(S)
             c == commit_action(a.S, q.begin_point, a.key, FALSE, "sp_run")
         IN [val |-> c.val,
             q |-> IF c.val = "True"
                   THEN [q EXCEPT !.running = TRUE, !.aborting = FALSE,
                                  !.end_point = a.key]
                   ELSE q,
             S |-> c.S]
    ELSE [val |-> "False", q |-> q, S |-> S]

\* SimpleProcess.join up to run_until_complete.
join(q, S) ==
    IF q.end_point # EmptyKey THEN wait_point(S, q.end_point) ELSE "False"

\* run_process: process.reset(), then the driver loop.
RunProcess ==
    /\ main = "idle"
    /\ nextPoint <= MaxPoints
    /\ nextRunner <= MaxRunners
    /\ sp' = reset(sp)
    /\ main' = "rp_loop"
    /\ ret' = [op |-> "run_process", val |-> "running"]
    /\ UNCHANGED <<schedVars, waiter, procVars>>

\* How run_process goes on once join has returned or raised v.
AfterJoin(v) ==
    IF v = "True"
    THEN /\ main' = "rp_loop"
         /\ ret' = [op |-> "run_process", val |-> "running"]
    ELSE /\ main' = "idle"
         /\ ret' = [op |-> "run_process",
                    val |-> IF v \in {"False", "None"} THEN "False" ELSE v]

\* One pass of `while process.has_more()`: commit, then join.
RunProcessLoop ==
    /\ main = "rp_loop"
    /\ IF has_more(sp)
       THEN /\ nextPoint <= MaxPoints
            /\ nextRunner <= MaxRunners
            /\ LET c == commit(sp, Sched)
                   j == join(c.q, c.S)
               IN /\ SetSched(c.S)
                  /\ sp' = c.q
                  /\ IF c.val = "ValueError"
                     THEN /\ main' = "idle"
                          /\ ret' = [op |-> "run_process",
                                     val |-> "ValueError"]
                          /\ UNCHANGED waiter
                     ELSE IF j = "block"
                     THEN /\ main' = "wait_rp"
                          /\ waiter' = [point |-> c.q.end_point,
                                        timeout |-> "None", pc |-> "start"]
                          /\ UNCHANGED ret
                     ELSE /\ AfterJoin(j)
                          /\ UNCHANGED waiter
       ELSE /\ main' = "idle"
            /\ ret' = [op |-> "run_process", val |-> "True"]
            /\ UNCHANGED <<schedVars, waiter, sp>>
    /\ UNCHANGED procVars

----------------------------------------------------------------------------
\* The wait task: _CtrlPoint.wait(timeout) under run_until_complete.

\* The wait task is over with outcome v (a status, or an error raised):
\* run_until_complete returns or raises and the caller's call goes on.
WaitOver(v) ==
    /\ waiter' = NoWaiter
    /\ IF main = "wait_api"
       THEN /\ main' = "idle"
            /\ ret' = [op |-> "wait_point", val |-> v]
       ELSE AfterJoin(v)

\* First step of wait: a done future gives self.status at once; a zero
\* timeout makes wait_for cancel the future and raise TimeoutError, which is
\* caught, and self.status is then read on the cancelled future.
WaitStart ==
    /\ LoopRunning
    /\ waiter.pc = "start"
    /\ LET p == waiter.point
       IN IF is_done(pt, p)
          THEN /\ WaitOver(status(pt, p))
               /\ UNCHANGED pt
          ELSE IF waiter.timeout = "zero"
          THEN /\ pt' = cancel(pt, p)
               /\ WaitOver(status(cancel(pt, p), p))
          ELSE /\ waiter' = [waiter EXCEPT !.pc = "awaiting"]
               /\ UNCHANGED <<pt, main, ret>>
    /\ UNCHANGED <<running, points, runners, rn, nextPoint, nextRunner, sp,
                   procVars>>

\* The awaited future is done: wait_for returns its result, or raises its
\* exception or CancelledError out of wait (only TimeoutError is caught).
WaitWake ==
    /\ LoopRunning
    /\ waiter.pc = "awaiting"
    /\ is_done(pt, waiter.point)
    /\ WaitOver(CASE pt[waiter.point].future = "result" -> "True"
                  [] pt[waiter.point].future = "exception" -> "Exception"
                  [] OTHER -> "CancelledError")
    /\ UNCHANGED <<schedVars, sp, procVars>>

\* The timeout elapses first: wait_for cancels the future and raises
\* TimeoutError, which is caught; self.status is read on the cancelled future.
WaitTimeout ==
    /\ LoopRunning
    /\ waiter.pc = "awaiting"
    /\ waiter.timeout = "positive"
    /\ ~is_done(pt, waiter.point)
    /\ pt' = cancel(pt, waiter.point)
    /\ WaitOver(status(cancel(pt, waiter.point), waiter.point))
    /\ UNCHANGED <<running, points, runners, rn, nextPoint, nextRunner, sp,
                   procVars>>

----------------------------------------------------------------------------
\* The runner tasks: _ActionRunner._run, a step at a time.

\* The task of r is over: its done callback is scheduled.
TaskOver(R, r, how) ==
    [R EXCEPT ![r].pc = "done", ![r].task = how, ![r].cbPending = TRUE]

\* `if prev:` holds. Without to_thread the body is awaited: it starts
\* executing. With to_thread, func_async is handed to asyncio.to_thread: the
\* worker calls it, which only builds a coroutine object that nothing awaits,
\* so the body does not execute.
EnterBody(R, r) ==
    IF R[r].to_thread
    THEN [R EXCEPT ![r].pc = "thread"]
    ELSE [R EXCEPT ![r].pc = "body", ![r].bodyRuns = @ + 1]

\* A plausible slip in _run: the begin point is not awaited.
RunnerStart_no_wait(r) ==
    /\ LoopRunning
    /\ rn[r].pc = "created"
    /\ ~rn[r].cancelReq
    /\ rn' = EnterBody(rn, r)
    /\ UNCHANGED <<running, points, runners, pt, nextPoint, nextRunner,
                   callerVars>>

\* First step of the task: `prev = await self._prev.wait()` suspends on a
\* pending begin point; on a done one wait returns self.status at once (which
\* raises CancelledError on a cancelled future).
RunnerStart(r) ==
    /\ LoopRunning
    /\ rn[r].pc = "created"
    /\ ~rn[r].cancelReq
    /\ LET p == rn[r].prev
       IN rn' = IF p = 0 THEN EnterBody(rn, r)
                ELSE IF ~is_done(pt, p)
                     THEN [rn EXCEPT ![r].pc = "waitprev"]
                ELSE IF status(pt, p) = "True" THEN EnterBody(rn, r)
                ELSE IF status(pt, p) = "False"
                     THEN TaskOver([rn EXCEPT ![r].status = "False"], r,
                                   "returned")
                ELSE TaskOver(rn, r, "cancelled")
    /\ UNCHANGED <<running, points, runners, pt, nextPoint, nextRunner,
                   callerVars>>

\* The awaited begin point is done: a result lets the body start; a stored
\* exception or a cancellation is raised out of wait and out of _run.
RunnerWake(r) ==
    /\ LoopRunning
    /\ rn[r].pc = "waitprev"
    /\ ~rn[r].cancelReq
    /\ is_done(pt, rn[r].prev)
    /\ rn' = CASE pt[rn[r].prev].future = "result" -> EnterBody(rn, r)
               [] pt[rn[r].prev].future = "exception" ->
                      TaskOver(rn, r, "raised")
               [] OTHER -> TaskOver(rn, r, "cancelled")
    /\ UNCHANGED <<running, points, runners, pt, nextPoint, nextRunner,
                   callerVars>>

\* A plausible slip in SimpleProcess._run: a body that returns counts as
\* finished whether or not the run was aborted.
sp_run_end_counts_aborted(q, ok) ==
    [q EXCEPT !.finished = IF ok THEN TRUE ELSE @,
              !.begin_point = 0,
              !.running = FALSE,
              !.aborting = FALSE]

\* SimpleProcess._run after body() has returned (ok) or raised, and its
\* finally clause.
sp_run_end(q, ok) ==
    [q EXCEPT !.finished = IF ok THEN ~q.aborting ELSE @,
              !.begin_point = 0,
              !.running = FALSE,
              !.aborting = FALSE]

\* The body returns (ok) or raises an Exception, which is captured in _exp;
\* then `self._status = self._exp is None`.
BodyEnd(r, ok) ==
    /\ LoopRunning
    /\ rn[r].pc = "body"
    /\ ~rn[r].cancelReq
    /\ LET e == IF ok THEN rn[r].exp ELSE "Exception"
       IN rn' = TaskOver([rn EXCEPT ![r].exp = e,
                                    ![r].status = IF e = "None" THEN "True"
                                                  ELSE "False"],
                         r, "returned")
    /\ sp' = IF rn[r].func = "sp_run" THEN sp_run_end(sp, ok) ELSE sp
    /\ UNCHANGED <<running, points, runners, pt, nextPoint, nextRunner,
                   main, waiter, ret, procVars>>

\* asyncio.to_thread returns (with the coroutine object as result).
ThreadEnd(r) ==
    /\ LoopRunning
    /\ rn[r].pc = "thread"
    /\ ~rn[r].cancelReq
    /\ rn' = TaskOver([rn EXCEPT ![r].status = IF rn[r].exp = "None"
                                               THEN "True" ELSE "False"],
                      r, "returned")
    /\ UNCHANGED <<running, points, runners, pt, nextPoint, nextRunner,
                   callerVars>>

\* A task whose cancellation was requested gets CancelledError at its next
\* step and ends cancelled; a SimpleProcess body unwinds through its finally.
RunnerCancelled(r) ==
    /\ LoopRunning
    /\ rn[r].pc \in {"created", "waitprev", "body", "thread"}
    /\ rn[r].cancelReq
    /\ rn' = TaskOver(rn, r, "cancelled")
    /\ sp' = IF rn[r].func = "sp_run" /\ rn[r].pc = "body"
             THEN sp_run_end(sp, FALSE) ELSE sp
    /\ UNCHANGED <<running, points, runners, pt, nextPoint, nextRunner,
                   main, waiter, ret, procVars>>

\* _callback_action: the task's done callback calls finish_action.
Callback(r) ==
    /\ LoopRunning
    /\ rn[r].cbPending
    /\ SetSched([finish_action(Sched, r) EXCEPT !.rn[r].cbPending = FALSE])
    /\ UNCHANGED callerVars

----------------------------------------------------------------------------

Next ==
    \/ Start
    \/ Stop
    \/ AcquirePoint
    \/ \E n \in Counts : AcquirePoints(n)
    \/ \E b \in Keys, e \in Keys, th \in BOOLEAN : CommitAction(b, e, th)
    \/ ClearDonePoints
    \/ \E k \in Keys, t \in Timeouts : WaitPoint(k, t)
    \/ RunProcess
    \/ RunProcessLoop
    \/ WaitStart
    \/ WaitWake
    \/ WaitTimeout
    \/ \E r \in RunnerIds : RunnerStart(r)
    \/ \E r \in RunnerIds : RunnerWake(r)
    \/ \E r \in RunnerIds, ok \in BOOLEAN : BodyEnd(r, ok)
    \/ \E r \in RunnerIds : ThreadEnd(r)
    \/ \E r \in RunnerIds : RunnerCancelled(r)
    \/ \E r \in RunnerIds : Callback(r)

Spec == Init /\ [][Next]_vars

----------------------------------------------------------------------------
\* Observations used by the properties below.

\* The body of r has started executing, or _run is past `if prev:`.
Started(r) == rn[r].bodyRuns > 0 \/ rn[r].pc \in {"body", "thread"}

\* Points created so far.
Acquired == {p \in PointIds : p < nextPoint}

\* This step is the done callback of r, with r still in the runner map.
Reports(r) == r \in runners /\ rn[r].cbPending /\ ~rn'[r].cbPending

----------------------------------------------------------------------------
\* C1: an action committed with a non-empty begin point P has started (its
\* body executes, or _run is past `if prev:`) only if P has resolved as
\* succeeded; in particular never while P is pending.
C1_BodyOnlyAfterBeginSucceeded ==
    \A r \in RunnerIds :
        (rn[r].prev # 0 /\ Started(r)) => pt[rn[r].prev].future = "result"

\* C1 witness: D was committed on begin point P before the action feeding P
\* was even committed, and D's body is now executing.
C1_Witness ==
    \E d \in RunnerIds, a \in RunnerIds :
        /\ d < a
        /\ rn[d].prev # 0
        /\ rn[a].post = rn[d].prev
        /\ rn[d].pc = "body"

\* C2: a pending point becomes succeeded only in a step after which it has
\* registered incoming actions and all of them have reported success; a
\* point all of whose k > 0 incoming actions reported success is not pending
\* and not failed by an error; an error reported to a pending point resolves
\* it as failed with that error at once; and a point failed by an error
\* keeps that status and error whatever is reported later.
C2_FanIn ==
    /\ [](\A p \in PointIds :
            (/\ pt[p].previous # {}
             /\ \A r \in pt[p].previous : rn[r].reported = "finish")
            => pt[p].future \in {"result", "cancelled"})
    /\ [][\A p \in PointIds :
            /\ (pt[p].future = "pending" /\ pt'[p].future = "result")
               => /\ pt'[p].previous # {}
                  /\ \A r \in pt'[p].previous : rn'[r].reported = "finish"
            /\ \A r \in RunnerIds :
                 (/\ Reports(r)
                  /\ rn[r].post = p
                  /\ rn[r].exp = "Exception"
                  /\ pt[p].future = "pending")
                 => (pt'[p].future = "exception" /\ pt'[p].exc = r)
            /\ pt[p].future = "exception"
               => (pt'[p].future = "exception" /\ pt'[p].exc = pt[p].exc)
         ]_vars

\* C2 witness: a point with two incoming actions failed by the error of one
\* of them, while the other one reported success.
C2_Witness ==
    \E p \in PointIds, a \in RunnerIds, b \in RunnerIds :
        /\ pt[p].previous = {a, b}
        /\ a # b
        /\ pt[p].future = "exception"
        /\ pt[p].exc = a
        /\ rn[b].reported = "finish"

\* C3 (as claimed): when a wait with a timeout ends while its point is
\* pending (the timeout elapsed), it returns None, the point is still pending
\* and no runner changed.
C3_TimeoutLeavesPointPending ==
    [][(/\ waiter.pc # "none"
        /\ waiter.timeout # "None"
        /\ pt[waiter.point].future = "pending"
        /\ waiter'.pc = "none")
       => (/\ ret'.val = "None"
           /\ pt'[waiter.point].future = "pending"
           /\ rn' = rn)]_vars

\* C4: when the done callback of a runner with an end point Q fires, Q
\* changes as the runner's outcome says: nothing if Q is already resolved;
\* one successful completion is counted if the runner succeeded; Q fails with
\* the runner's own error if its body raised; Q is cancelled otherwise, and
\* that runner never ran its body.
C4_TriggerPostMirrorsOutcome ==
    [][\A r \in RunnerIds :
        (Reports(r) /\ rn[r].post # 0) =>
          LET q == rn[r].post
          IN /\ \A p \in PointIds \ {q} : pt'[p] = pt[p]
             /\ IF pt[q].future # "pending" THEN pt'[q] = pt[q]
                ELSE IF rn[r].status = "True"
                THEN /\ rn[r].exp = "None"
                     /\ pt'[q].count = pt[q].count - 1
                     /\ pt'[q].future = IF pt'[q].count = 0 THEN "result"
                                        ELSE "pending"
                ELSE IF rn[r].bodyRuns > 0
                THEN /\ rn[r].exp = "Exception"
                     /\ pt'[q].future = "exception"
                     /\ pt'[q].exc = r
                ELSE /\ rn[r].exp = "None"
                     /\ pt'[q].future = "cancelled"
      ]_vars

\* C4 witness: the body of a raised, its end point failed with that error,
\* and d, which waited on that point, cancelled its own end point.
C4_Witness ==
    \E a \in RunnerIds, d \in RunnerIds :
        /\ rn[a].reported = "finish_exp"
        /\ rn[a].post # 0
        /\ pt[rn[a].post].exc = a
        /\ rn[d].prev = rn[a].post
        /\ rn[d].reported = "cancel"
        /\ pt[rn[d].post].future = "cancelled"

\* C5 (as claimed): when the body of the leaf committed by run_process has
\* raised, run_process still returns to its caller, with success = false.
C5_RunProcessReturnsFalseOnBodyError ==
    (/\ main = "idle"
     /\ ret.op = "run_process"
     /\ \E r \in RunnerIds :
          /\ rn[r].func = "sp_run"
          /\ rn[r].post = sp.end_point
          /\ rn[r].exp = "Exception")
    => ret.val = "False"

\* C6 (as claimed): no wait raises the error its point was resolved with:
\* wait_point never ends by raising that error, and no runner task ends by
\* the error of its begin point being raised out of its wait.
C6_WaitNeverRaisesOnFailedPoint ==
    /\ ret.op = "wait_point" => ret.val # "Exception"
    /\ \A r \in RunnerIds : rn[r].task # "raised"

\* C7 (as claimed): status is None on a pending point, True on a point
\* resolved cleanly, and False on a point resolved with an error or cancelled.
C7_StatusTotal ==
    \A p \in Acquired :
        status(pt, p) = CASE pt[p].future = "pending" -> "None"
                          [] pt[p].future = "result" -> "True"
                          [] OTHER -> "False"

\* C8: once a point is resolved, no step changes how it is resolved nor its
\* stored error.
C8_ResolvedAtMostOnce ==
    [][\A p \in PointIds :
         pt[p].future # "pending"
         => (pt'[p].future = pt[p].future /\ pt'[p].exc = pt[p].exc)]_vars

\* C8 witness: a point was cancelled by the timeout of a wait, an incoming
\* action then reported success to it, and the point is still cancelled.
C8_Witness ==
    \E r \in RunnerIds :
        /\ rn[r].reported = "finish"
        /\ pt[rn[r].post].future = "cancelled"

\* C9 (as claimed): a runner that reports success has executed its body
\* exactly once, with or without to_thread.
C9_BodyRunsOnceBeforeSuccess ==
    \A r \in RunnerIds : rn[r].status = "True" => rn[r].bodyRuns = 1

\* C10 (as claimed): after stop() the scheduler is not running, both maps are
\* empty, every runner that was in the runner map has status failed and every
\* point that was in the point map is failed or cancelled.
C10_StopFailsEverything ==
    [][Stop =>
        /\ ~running'
        /\ runners' = {}
        /\ points' = {}
        /\ \A r \in runners : rn'[r].status = "False"
        /\ \A p \in points : pt'[p].future \in {"exception", "cancelled"}
      ]_vars

\* C10 (amended): after stop() the scheduler is not running and both maps are
\* empty; every runner of the map whose task was not done has status failed
\* and a runner whose task was done is left as it was; every point of the map
\* that was pending is cancelled and a resolved one keeps its resolution, so
\* that no point of the map is left pending.
C10_StopCancelsTheUnfinished ==
    [][Stop =>
        /\ ~running'
        /\ runners' = {}
        /\ points' = {}
        /\ \A r \in runners :
             IF rn[r].pc # "done" THEN rn'[r].status = "False"
             ELSE rn'[r] = rn[r]
        /\ \A p \in points :
             /\ pt'[p].future # "pending"
             /\ IF pt[p].future = "pending" THEN pt'[p].future = "cancelled"
                ELSE pt'[p] = pt[p]
      ]_vars

\* C10 witness: stop() has just been called with two actions in flight, both
\* now failed with their cancellation requested.
C10_Witness ==
    /\ ret.op = "stop"
    /\ \A r \in RunnerIds :
         /\ rn[r].pc \in {"body", "thread"}
         /\ rn[r].cancelReq
         /\ rn[r].status = "False"

----------------------------------------------------------------------------
\* The composite processes of process.py over SimpleProcess leaves.
\*
\* A process tree is a sequence of nodes, node 1 being the root the caller
\* holds; each node has its class (kind) and its children in order. The
\* fields of every process are kept by node in `node`.

\* Bounds of the process model: children of a composite, answers the sweeper
\* has ready, leaf commits (each takes one point and one runner), and rounds
\* of run_process.
MaxKids == 3
MaxPlan == 2
MaxCommits == 4
MaxTicks == 4

\* Ids of the points and runners of the process model; the ids above
\* MaxCommits are never handed out.
ProcIds == 1..(MaxCommits + MaxKids)

Root == 1

\* SimpleProcess(name)
Leaf == [kind |-> "simple", kids |-> <<>>]

\* kind(processes) with n SimpleProcess leaves, as built in the module's
\* demo: SeriesProcess(processes), ParallelProcess(processes),
\* SwitchProcess(switcher, processes).
Composite(kind, n) ==
    <<[kind |-> kind, kids |-> [i \in 1..n |-> i + 1]]>>
        \o [i \in 1..n |-> Leaf]

\* SweepProcess(sweeper, SaluteProcess('salute'))
SweepOfLeaf == <<[kind |-> "sweep", kids |-> <<2>>], Leaf>>

\* SwitchProcess(switcher, [SeriesProcess([leaf, leaf]), leaf])
SwitchOfSeries ==
    <<[kind |-> "switch", kids |-> <<2, 5>>],
      [kind |-> "series", kids |-> <<3, 4>>], Leaf, Leaf, Leaf>>

\* What the sweeper answers, call after call (false once past the end), as
\* SubjectSweeper does with its own index.
Plans == [1..MaxPlan -> BOOLEAN]

\* What the switcher returns: an index in range, or one on either side.
Decisions(n) == (0 - 1)..n

\* The trees the caller may build, with the callables it passes. `asserts`
\* says whether assert statements are executed (they are not under
\* python -O), which only matters for an index outside 0..len-1.
Configs ==
    {[tree |-> Composite(k, MaxKids), decision |-> 0, plan |-> <<>>,
      asserts |-> TRUE] : k \in {"series", "parallel"}}
    \cup {c \in {[tree |-> Composite("switch", 2), decision |-> d,
                   plan |-> <<>>, asserts |-> a] :
                      d \in Decisions(2), a \in BOOLEAN} :
            c.asserts \/ c.decision < 0 \/ c.decision >= 2}
    \cup {[tree |-> SwitchOfSeries, decision |-> 0, plan |-> <<>>,
           asserts |-> TRUE]}
    \cup {[tree |-> SweepOfLeaf, decision |-> 0, plan |-> p,
           asserts |-> TRUE] : p \in Plans}

Kind(C, n) == C.tree[n].kind

Kids(C, n) == C.tree[n].kids

Nodes(C) == 1..Len(C.tree)

Leaves(C) == {n \in Nodes(C) : Kind(C, n) = "simple"}

\* The fields of a process after __init__ (SimpleProcess: _begin_point,
\* _end_point, _finished, _running, _aborting; SeriesProcess: _index;
\* SwitchProcess: _current, _decided; SweepProcess: _in_loop, _finished).
NewNode ==
    [begin_point |-> 0, end_point |-> 0, finished |-> FALSE,
     running |-> FALSE, aborting |-> FALSE, index |-> 0, current |-> 0,
     decided |-> FALSE, in_loop |-> FALSE]

\* The state after the tree is built and scheduler.start() was called.
ProcInit ==
    /\ running = TRUE
    /\ points = {}
    /\ runners = {}
    /\ pt = [p \in ProcIds |-> NewPoint]
    /\ rn = [r \in ProcIds |-> NoRunner]
    /\ nextPoint = 1
    /\ nextRunner = 1
    /\ main = "idle"
    /\ waiter = NoWaiter
    /\ ret = NoRet
    /\ sp = NewProcess
    /\ cfg \in Configs
    /\ node = [n \in Nodes(cfg) |-> NewNode]
    /\ drv = NoDrive
    /\ hist = [NoHist EXCEPT !.commits = [n \in Nodes(cfg) |-> 0]]

----------------------------------------------------------------------------
\* is_pending, has_more, reset of every class. N is the fields by node.

RECURSIVE Process_is_pending(_, _, _)
\* Process.is_pending of node n: SimpleProcess, SeriesProcess,
\* ParallelProcess, SwitchProcess, SweepProcess.
Process_is_pending(C, N, n) ==
    CASE Kind(C, n) = "simple" -> N[n].running
      [] Kind(C, n) = "series" ->
            IF N[n].index < Len(Kids(C, n))
            THEN Process_is_pending(C, N, Kids(C, n)[N[n].index + 1])
            ELSE FALSE
      [] Kind(C, n) = "parallel" ->
            \E i \in 1..Len(Kids(C, n)) :
                Process_is_pending(C, N, Kids(C, n)[i])
      [] Kind(C, n) = "switch" ->
            IF N[n].current # 0
            THEN Process_is_pending(C, N, N[n].current)
            ELSE FALSE
      [] Kind(C, n) = "sweep" ->
            IF N[n].in_loop
            THEN Process_is_pending(C, N, Kids(C, n)[1])
            ELSE FALSE

RECURSIVE Process_has_more(_, _, _)

\* A plausible slip in SeriesProcess.has_more: more is reported as long as
\* the index is on a child.
Series_has_more_on_child(C, N, n) ==
    N[n].index < Len(Kids(C, n))

\* A plausible slip in SeriesProcess.has_more: the children after the
\* current one are not counted.
Series_has_more_current_only(C, N, n) ==
    IF N[n].index < Len(Kids(C, n))
    THEN LET proc == Kids(C, n)[N[n].index + 1]
         IN \/ Process_is_pending(C, N, proc)
            \/ Process_has_more(C, N, proc)
    ELSE FALSE

\* SeriesProcess.has_more
Series_has_more(C, N, n) ==
    IF N[n].index < Len(Kids(C, n))
    THEN LET proc == Kids(C, n)[N[n].index + 1]
         IN IF \/ Process_is_pending(C, N, proc)
               \/ Process_has_more(C, N, proc)
            THEN TRUE
            ELSE N[n].index < Len(Kids(C, n)) - 1
    ELSE FALSE

\* ParallelProcess.has_more
Parallel_has_more(C, N, n) ==
    \E i \in 1..Len(Kids(C, n)) :
        \/ Process_is_pending(C, N, Kids(C, n)[i])
        \/ Process_has_more(C, N, Kids(C, n)[i])

\* SwitchProcess.has_more
Switch_has_more(C, N, n) ==
    IF N[n].current # 0
    THEN Process_has_more(C, N, N[n].current)
    ELSE ~N[n].decided

\* SweepProcess.has_more
Sweep_has_more(C, N, n) == ~N[n].finished

\* Process.has_more of node n, class by class.
Process_has_more(C, N, n) ==
    CASE Kind(C, n) = "simple" -> has_more(N[n])
      [] Kind(C, n) = "series" -> Series_has_more(C, N, n)
      [] Kind(C, n) = "parallel" -> Parallel_has_more(C, N, n)
      [] Kind(C, n) = "switch" -> Switch_has_more(C, N, n)
      [] Kind(C, n) = "sweep" -> Sweep_has_more(C, N, n)

RECURSIVE Process_reset(_, _, _)
RECURSIVE reset_children(_, _, _, _)
\* `for child in self: child.reset()` from the i-th child on.
reset_children(C, N, n, i) ==
    IF i > Len(Kids(C, n)) THEN N
    ELSE reset_children(C, Process_reset(C, N, Kids(C, n)[i]), n, i + 1)

\* Process.reset of node n, class by class.
Process_reset(C, N, n) ==
    CASE Kind(C, n) = "simple" -> [N EXCEPT ![n] = reset(N[n])]
      [] Kind(C, n) = "series" ->
            [reset_children(C, N, n, 1) EXCEPT ![n].index = 0]
      [] Kind(C, n) = "parallel" -> reset_children(C, N, n, 1)
      [] Kind(C, n) = "switch" ->
            [reset_children(C, N, n, 1) EXCEPT ![n].current = 0,
                                               ![n].decided = FALSE]
      [] Kind(C, n) = "sweep" ->
            [Process_reset(C, N, Kids(C, n)[1]) EXCEPT
                ![n].in_loop = FALSE, ![n].finished = FALSE]

----------------------------------------------------------------------------
\* commit of every class. X holds the fields by node (N), the scheduler (S)
\* and what was called (H); a commit returns a value, or raises an error,
\* and leaves a new X.

Returns(v, X) == [val |-> v, err |-> "none", X |-> X]

Raises(e, X) == [val |-> FALSE, err |-> e, X |-> X]

\* The switcher is called: it returns C.decision.
call_switcher(H) == [H EXCEPT !.switcher_calls = @ + 1]

\* The answer of the sweeper at its next call.
sweeper_answer(C, H) ==
    IF H.sweeper_index < Len(C.plan) THEN C.plan[H.sweeper_index + 1]
    ELSE FALSE

\* The sweeper is called: it moves on while it has answers ready.
call_sweeper(C, H) ==
    [H EXCEPT !.sweeper_index = IF @ < Len(C.plan) THEN @ + 1 ELSE @,
              !.sweeper_calls = @ + 1,
              !.sweeper_trues = IF sweeper_answer(C, H) THEN @ + 1 ELSE @]

\* SimpleProcess.commit of leaf n.
Simple_commit(C, X, n) ==
    LET c == commit(X.N[n], X.S)
    IN Returns(c.val = "True",
               [N |-> [X.N EXCEPT ![n] = c.q],
                S |-> c.S,
                H |-> IF c.val = "True"
                      THEN [X.H EXCEPT !.commits[n] = @ + 1,
                                       !.last = @ \cup {n}]
                      ELSE X.H])

RECURSIVE Process_commit(_, _, _)
RECURSIVE Series_commit(_, _, _)
RECURSIVE Parallel_commit(_, _, _, _, _)

\* A plausible slip in SeriesProcess.commit: a pending child is passed over
\* like an exhausted one.
Series_commit_past_pending(C, X, n) ==
    IF X.N[n].index < Len(Kids(C, n))
    THEN LET proc == Kids(C, n)[X.N[n].index + 1]
         IN IF \/ Process_is_pending(C, X.N, proc)
               \/ ~Process_has_more(C, X.N, proc)
            THEN Series_commit(C, [X EXCEPT !.N[n].index = @ + 1], n)
            ELSE Process_commit(C, X, proc)
    ELSE Returns(FALSE, X)

\* SeriesProcess.commit: `while self._index < len(self)`.
Series_commit(C, X, n) ==
    IF X.N[n].index < Len(Kids(C, n))
    THEN LET proc == Kids(C, n)[X.N[n].index + 1]
         IN IF Process_is_pending(C, X.N, proc)
            THEN Returns(FALSE, X)
            ELSE IF ~Process_has_more(C, X.N, proc)
            THEN Series_commit(C, [X EXCEPT !.N[n].index = @ + 1], n)
            ELSE Process_commit(C, X, proc)
    ELSE Returns(FALSE, X)

\* A plausible slip in ParallelProcess.commit: return at the first child
\* committed.
Parallel_commit_first(C, X, n, i, rst) ==
    IF i > Len(Kids(C, n)) \/ rst THEN Returns(rst, X)
    ELSE LET child == Kids(C, n)[i]
         IN IF \/ Process_is_pending(C, X.N, child)
               \/ ~Process_has_more(C, X.N, child)
            THEN Parallel_commit(C, X, n, i + 1, rst)
            ELSE LET c == Process_commit(C, X, child)
                 IN IF c.err # "none" THEN c
                    ELSE Parallel_commit(C, c.X, n, i + 1, rst \/ c.val)

\* ParallelProcess.commit: `for child in self` from the i-th child on, rst
\* being the result so far.
Parallel_commit(C, X, n, i, rst) ==
    IF i > Len(Kids(C, n)) THEN Returns(rst, X)
    ELSE LET child == Kids(C, n)[i]
         IN IF \/ Process_is_pending(C, X.N, child)
               \/ ~Process_has_more(C, X.N, child)
            THEN Parallel_commit(C, X, n, i + 1, rst)
            ELSE LET c == Process_commit(C, X, child)
                 IN IF c.err # "none" THEN c
                    ELSE Parallel_commit(C, c.X, n, i + 1, rst \/ c.val)

\* CompositeProcess.__getitem__: self._children[index] has an item for
\* -len <= index < len, a negative index counting from the end, and raises
\* IndexError otherwise.
has_item(kids, index) == index >= 0 - Len(kids) /\ index < Len(kids)

getitem(kids, index) ==
    IF index >= 0 THEN kids[index + 1] ELSE kids[Len(kids) + index + 1]

\* A plausible slip in SwitchProcess.commit: the _decided flag is not set.
Switch_commit_undecided(C, X, n) ==
    IF X.N[n].current = 0 /\ ~X.N[n].decided
    THEN LET X1 == [X EXCEPT !.H = call_switcher(@)]
             index == C.decision
         IN IF C.asserts /\ ~(index >= 0 /\ index < Len(Kids(C, n)))
            THEN Returns(FALSE, X1)
            ELSE IF ~has_item(Kids(C, n), index)
            THEN Raises("IndexError", X1)
            ELSE Process_commit(
                     C,
                     [X1 EXCEPT !.N[n].current = getitem(Kids(C, n), index)],
                     getitem(Kids(C, n), index))
    ELSE Returns(FALSE, X)

\* SwitchProcess.commit: the first commit of a cycle calls the switcher; an
\* index that fails the assert is caught and logged, and False is returned.
\* Without the assert, self[index] outside the try raises IndexError or
\* takes a child counted from the end.
Switch_commit(C, X, n) ==
    IF X.N[n].current = 0 /\ ~X.N[n].decided
    THEN LET X1 == [X EXCEPT !.N[n].decided = TRUE,
                             !.H = call_switcher(@)]
             index == C.decision
         IN IF C.asserts /\ ~(index >= 0 /\ index < Len(Kids(C, n)))
            THEN Returns(FALSE, X1)
            ELSE IF ~has_item(Kids(C, n), index)
            THEN Raises("IndexError", X1)
            ELSE Process_commit(
                     C,
                     [X1 EXCEPT !.N[n].current = getitem(Kids(C, n), index)],
                     getitem(Kids(C, n), index))
    ELSE Returns(FALSE, X)

\* A plausible slip in SweepProcess.commit: _finished is not checked.
Sweep_commit_unfinished(C, X, n) ==
    IF X.N[n].in_loop THEN Process_commit(C, X, Kids(C, n)[1])
    ELSE LET X1 == [X EXCEPT !.H = call_sweeper(C, @)]
         IN IF sweeper_answer(C, X.H)
            THEN Process_commit(
                     C,
                     [X1 EXCEPT !.N = Process_reset(
                                          C, [@ EXCEPT ![n].in_loop = TRUE],
                                          Kids(C, n)[1])],
                     Kids(C, n)[1])
            ELSE Returns(FALSE, [X1 EXCEPT !.N[n].finished = TRUE])

\* A plausible slip in SweepProcess.commit: the body is not reset before it
\* is committed again.
Sweep_commit_no_reset(C, X, n) ==
    IF X.N[n].in_loop THEN Process_commit(C, X, Kids(C, n)[1])
    ELSE IF ~X.N[n].finished
    THEN LET X1 == [X EXCEPT !.H = call_sweeper(C, @)]
         IN IF sweeper_answer(C, X.H)
            THEN Process_commit(
                     C, [X1 EXCEPT !.N[n].in_loop = TRUE], Kids(C, n)[1])
            ELSE Returns(FALSE, [X1 EXCEPT !.N[n].finished = TRUE])
    ELSE Returns(FALSE, X)

\* SweepProcess.commit: inside the loop the body is committed; outside it
\* the sweeper decides.
Sweep_commit(C, X, n) ==
    IF X.N[n].in_loop THEN Process_commit(C, X, Kids(C, n)[1])
    ELSE IF ~X.N[n].finished
    THEN LET X1 == [X EXCEPT !.H = call_sweeper(C, @)]
         IN IF sweeper_answer(C, X.H)
            THEN Process_commit(
                     C,
                     [X1 EXCEPT !.N = Process_reset(
                                          C, [@ EXCEPT ![n].in_loop = TRUE],
                                          Kids(C, n)[1])],
                     Kids(C, n)[1])
            ELSE Returns(FALSE, [X1 EXCEPT !.N[n].finished = TRUE])
    ELSE Returns(FALSE, X)

\* Process.commit of node n, class by class.
Process_commit(C, X, n) ==
    CASE Kind(C, n) = "simple" -> Simple_commit(C, X, n)
      [] Kind(C, n) = "series" -> Series_commit(C, X, n)
      [] Kind(C, n) = "parallel" -> Parallel_commit(C, X, n, 1, FALSE)
      [] Kind(C, n) = "switch" -> Switch_commit(C, X, n)
      [] Kind(C, n) = "sweep" -> Sweep_commit(C, X, n)

----------------------------------------------------------------------------
\* join of every class. A join runs in the caller's thread until a leaf's
\* wait_point has to run the event loop; the composites then being joined
\* are kept as a stack of frames (the node, and for a ParallelProcess the
\* place in its loop and its rst), and the join goes on from there when
\* wait_point returns.

\* The join is over and returns v.
Joined(N, v) ==
    [st |-> "ret", val |-> v, err |-> "none", N |-> N, stack |-> <<>>,
     point |-> 0]

\* The join is blocked in wait_point(point).
Blocked(N, stack, point) ==
    [st |-> "block", val |-> FALSE, err |-> "none", N |-> N,
     stack |-> stack, point |-> point]

\* The join raises err to its caller: no join catches anything.
Raised(N, err) ==
    [st |-> "raise", val |-> FALSE, err |-> err, N |-> N, stack |-> <<>>,
     point |-> 0]

Frame(n, i, rst) == [node |-> n, i |-> i, rst |-> rst]

RECURSIVE Process_join(_, _, _, _, _)
RECURSIVE join_return(_, _, _, _, _)
RECURSIVE Parallel_join(_, _, _, _, _, _, _)

\* ParallelProcess.join: `for child in self` from the i-th child on, rst
\* being the result so far.
Parallel_join(C, N, S, stack, n, i, rst) ==
    IF i > Len(Kids(C, n)) THEN join_return(C, N, S, stack, rst)
    ELSE IF Process_is_pending(C, N, Kids(C, n)[i])
    THEN Process_join(C, N, S, Append(stack, Frame(n, i, rst)),
                      Kids(C, n)[i])
    ELSE Parallel_join(C, N, S, stack, n, i + 1, rst)

\* Process.join of node n, class by class, called with `stack` joins under
\* way above it.
Process_join(C, N, S, stack, n) ==
    CASE Kind(C, n) = "simple" ->
            LET w == join(N[n], S)
            IN IF w = "block" THEN Blocked(N, stack, N[n].end_point)
               ELSE IF w \in {"True", "False", "None"}
               THEN join_return(C, N, S, stack, w = "True")
               ELSE Raised(N, w)
      [] Kind(C, n) = "series" ->
            IF /\ N[n].index < Len(Kids(C, n))
               /\ Process_is_pending(C, N, Kids(C, n)[N[n].index + 1])
            THEN Process_join(C, N, S, Append(stack, Frame(n, 0, FALSE)),
                              Kids(C, n)[N[n].index + 1])
            ELSE join_return(C, N, S, stack, TRUE)
      [] Kind(C, n) = "parallel" ->
            Parallel_join(C, N, S, stack, n, 1, FALSE)
      [] Kind(C, n) = "switch" ->
            IF N[n].current # 0
            THEN Process_join(C, N, S, Append(stack, Frame(n, 0, FALSE)),
                              N[n].current)
            ELSE join_return(C, N, S, stack, FALSE)
      [] Kind(C, n) = "sweep" ->
            IF N[n].in_loop
            THEN Process_join(C, N, S, Append(stack, Frame(n, 0, FALSE)),
                              Kids(C, n)[1])
            ELSE join_return(C, N, S, stack, N[n].finished)

\* The join of a child has returned v to the composite on top of the stack.
join_return(C, N, S, stack, v) ==
    IF stack = <<>> THEN Joined(N, v)
    ELSE LET f == stack[Len(stack)]
             rest == SubSeq(stack, 1, Len(stack) - 1)
             n == f.node
         IN CASE Kind(C, n) = "parallel" ->
                    Parallel_join(C, N, S, rest, n, f.i + 1, f.rst \/ v)
              [] Kind(C, n) = "sweep" ->
                    join_return(
                        C,
                        IF ~Process_has_more(C, N, Kids(C, n)[1])
                        THEN [N EXCEPT ![n].in_loop = FALSE] ELSE N,
                        S, rest, v)
              [] OTHER -> join_return(C, N, S, rest, v)

----------------------------------------------------------------------------
\* The caller's thread on the tree.

\* What was called since reset() is forgotten; the sweeper keeps its index.
forget(H) ==
    [H EXCEPT !.sweeper_calls = 0, !.sweeper_trues = 0,
              !.switcher_calls = 0,
              !.commits = [n \in DOMAIN @ |-> 0],
              !.last = {},
              !.raised = FALSE]

Truth(b) == IF b THEN "True" ELSE "False"

\* A join, or a round of run_process, has come to j: it is blocked in
\* wait_point, or it returned or raised and the caller (run_process, or the
\* caller of join) goes on. d is drv as it was when the join began.
AfterProcessJoin(j, d) ==
    /\ node' = j.N
    /\ CASE j.st = "block" ->
              /\ main' = "wait_join"
              /\ waiter' = [point |-> j.point, timeout |-> "None",
                            pc |-> "start"]
              /\ drv' = [d EXCEPT !.stack = j.stack]
              /\ ret' = [op |-> IF d.mode = "run" THEN "run_process"
                                ELSE "join",
                         val |-> "blocked"]
         [] j.st = "ret" /\ d.mode = "run" /\ j.val ->
              /\ main' = "rp_loop"
              /\ waiter' = NoWaiter
              /\ drv' = [d EXCEPT !.stack = <<>>, !.ticks = @ + 1]
              /\ ret' = [op |-> "run_process", val |-> "running"]
         [] j.st = "ret" /\ ~(d.mode = "run" /\ j.val) ->
              /\ main' = "idle"
              /\ waiter' = NoWaiter
              /\ drv' = [d EXCEPT !.stack = <<>>, !.mode = "none"]
              /\ ret' = [op |-> IF d.mode = "run" THEN "run_process"
                                ELSE "join",
                         val |-> Truth(j.val)]
         [] j.st = "raise" ->
              /\ main' = "idle"
              /\ waiter' = NoWaiter
              /\ drv' = [d EXCEPT !.stack = <<>>, !.mode = "none"]
              /\ ret' = [op |-> IF d.mode = "run" THEN "run_process"
                                ELSE "join",
                         val |-> j.err]

\* process.commit(scheduler) on the root.
ProcessCommit ==
    /\ main = "idle"
    /\ LET c == Process_commit(
                    cfg,
                    [N |-> node, S |-> Sched,
                     H |-> [hist EXCEPT !.last = {}]],
                    Root)
       IN /\ c.X.S.nextPoint <= MaxCommits + 1
          /\ node' = c.X.N
          /\ SetSched(c.X.S)
          /\ hist' = c.X.H
          /\ ret' = [op |-> "commit",
                     val |-> IF c.err # "none" THEN c.err ELSE Truth(c.val)]
    /\ UNCHANGED <<main, waiter, sp, cfg, drv>>

\* process.reset() on the root.
ProcessReset ==
    /\ main = "idle"
    /\ node' = Process_reset(cfg, node, Root)
    /\ hist' = forget(hist)
    /\ ret' = [op |-> "reset", val |-> "None"]
    /\ UNCHANGED <<schedVars, main, waiter, sp, cfg, drv>>

\* process.join(scheduler) on the root.
ProcessJoin ==
    /\ main = "idle"
    /\ AfterProcessJoin(Process_join(cfg, node, Sched, <<>>, Root),
                        [NoDrive EXCEPT !.mode = "join"])
    /\ UNCHANGED <<schedVars, sp, cfg, hist>>

\* run_process(process, scheduler): process.reset(), then the driver loop.
\* idle records that no leaf was pending when it was called.
RunTree ==
    /\ main = "idle"
    /\ node' = Process_reset(cfg, node, Root)
    /\ hist' = forget(hist)
    /\ drv' = [NoDrive EXCEPT
                  !.mode = "run",
                  !.idle = \A n \in Leaves(cfg) : ~node[n].running]
    /\ main' = "rp_loop"
    /\ ret' = [op |-> "run_process", val |-> "running"]
    /\ UNCHANGED <<schedVars, waiter, sp, cfg>>

\* One pass of `while process.has_more()`: commit, then join.
RunTreeLoop ==
    /\ main = "rp_loop"
    /\ drv.mode = "run"
    /\ IF Process_has_more(cfg, node, Root)
       THEN /\ drv.ticks < MaxTicks
            /\ LET c == Process_commit(
                            cfg,
                            [N |-> node, S |-> Sched,
                             H |-> [hist EXCEPT !.last = {}]],
                            Root)
               IN /\ c.X.S.nextPoint <= MaxCommits + 1
                  /\ SetSched(c.X.S)
                  /\ hist' = c.X.H
                  /\ AfterProcessJoin(
                         IF c.err # "none" THEN Raised(c.X.N, c.err)
                         ELSE Process_join(cfg, c.X.N, c.X.S, <<>>, Root),
                         drv)
       ELSE /\ main' = "idle"
            /\ drv' = [drv EXCEPT !.mode = "none"]
            /\ ret' = [op |-> "run_process", val |-> "True"]
            /\ UNCHANGED <<schedVars, waiter, node, hist>>
    /\ UNCHANGED <<sp, cfg>>

\* wait_point has returned v, or raised it: the join goes on.
JoinWaitOver(v) ==
    AfterProcessJoin(
        IF v \in {"True", "False", "None"}
        THEN join_return(cfg, node, Sched, drv.stack, v = "True")
        ELSE Raised(node, v),
        drv)

\* First step of the wait task of a join (timeout None): a done future gives
\* self.status at once, a pending one is awaited.
JoinWaitStart ==
    /\ main = "wait_join"
    /\ waiter.pc = "start"
    /\ IF is_done(pt, waiter.point)
       THEN JoinWaitOver(status(pt, waiter.point))
       ELSE /\ waiter' = [waiter EXCEPT !.pc = "awaiting"]
            /\ UNCHANGED <<main, ret, node, drv>>
    /\ UNCHANGED <<schedVars, sp, cfg, hist>>

\* The awaited future is done: wait returns its result, or raises its
\* exception or CancelledError.
JoinWaitWake ==
    /\ main = "wait_join"
    /\ waiter.pc = "awaiting"
    /\ is_done(pt, waiter.point)
    /\ JoinWaitOver(CASE pt[waiter.point].future = "result" -> "True"
                      [] pt[waiter.point].future = "exception" -> "Exception"
                      [] OTHER -> "CancelledError")
    /\ UNCHANGED <<schedVars, sp, cfg, hist>>

\* The caller waits, with wait_point, on a point of work of its own that is
\* no part of the tree: the event loop runs.
OtherWait ==
    /\ main = "idle"
    /\ runners # {}
    /\ main' = "wait_other"
    /\ ret' = [op |-> "wait_point", val |-> "blocked"]
    /\ UNCHANGED <<schedVars, waiter, sp, procVars>>

\* That wait_point returns, wherever the tasks of the tree have got to.
OtherWaitOver ==
    /\ main = "wait_other"
    /\ main' = "idle"
    /\ ret' = [op |-> "wait_point", val |-> "True"]
    /\ UNCHANGED <<schedVars, waiter, sp, procVars>>

\* The leaf whose _run is the function of runner r.
Owner(r) ==
    CHOOSE n \in Leaves(cfg) :
        node[n].running /\ node[n].end_point = rn[r].post

\* The body of a leaf returns (ok) or raises: SimpleProcess._run ends, and
\* the runner captures the error, if any, and sets its status.
LeafBodyEnd(r, ok) ==
    /\ LoopRunning
    /\ rn[r].pc = "body"
    /\ ~rn[r].cancelReq
    /\ rn[r].func = "sp_run"
    /\ LET e == IF ok THEN rn[r].exp ELSE "Exception"
       IN rn' = TaskOver([rn EXCEPT ![r].exp = e,
                                    ![r].status = IF e = "None" THEN "True"
                                                  ELSE "False"],
                         r, "returned")
    /\ node' = [node EXCEPT ![Owner(r)] = sp_run_end(@, ok)]
    /\ hist' = IF ok THEN hist ELSE [hist EXCEPT !.raised = TRUE]
    /\ UNCHANGED <<running, points, runners, pt, nextPoint, nextRunner,
                   main, waiter, ret, sp, cfg, drv>>

ProcNext ==
    \/ ProcessCommit
    \/ ProcessReset
    \/ ProcessJoin
    \/ RunTree
    \/ RunTreeLoop
    \/ JoinWaitStart
    \/ JoinWaitWake
    \/ OtherWait
    \/ OtherWaitOver
    \/ \E r \in ProcIds : RunnerStart(r)
    \/ \E r \in ProcIds, ok \in BOOLEAN : LeafBodyEnd(r, ok)
    \/ \E r \in ProcIds : Callback(r)

ProcSpec == ProcInit /\ [][ProcNext]_vars

----------------------------------------------------------------------------
\* Observations on the tree used by the properties below.

\* The children of composite n.
Children(n) == {Kids(cfg, n)[i] : i \in 1..Len(Kids(cfg, n))}

\* is_pending() / has_more() of process n now.
IsPending(n) == Process_is_pending(cfg, node, n)

HasMore(n) == Process_has_more(cfg, node, n)

\* The children of composite n that are pending now.
PendingChildren(n) == {c \in Children(n) : IsPending(c)}

\* Leaf n is committed in this step.
Committed(n) == hist'.commits[n] > hist.commits[n]

\* This step is a call of commit on the root: the caller's own, or the one
\* of a round of run_process.
CommitCall ==
    \/ ProcessCommit
    \/ RunTreeLoop /\ HasMore(Root)

\* C11 (as claimed): at most one child of a SeriesProcess is pending, in
\* every state reached by commit, join and reset calls and scheduler
\* progress.
C11_SeriesOnePending ==
    Kind(cfg, Root) = "series" => Cardinality(PendingChildren(Root)) <= 1

\* The series composites of the tree.
SeriesNodes == {n \in Nodes(cfg) : Kind(cfg, n) = "series"}

\* C12: a SeriesProcess commits its children in index order within a reset
\* cycle: a child is committed only in a state where every child before it
\* is exhausted and not pending, and while a child committed in this cycle
\* is pending every child before it is exhausted and not pending, so its
\* body never runs before the bodies of the children before it are over.
C12_SeriesInOrder ==
    /\ [](\A n \in SeriesNodes : \A i \in 1..Len(Kids(cfg, n)) :
            (/\ node[Kids(cfg, n)[i]].running
             /\ hist.commits[Kids(cfg, n)[i]] > 0)
            => \A j \in 1..(i - 1) :
                   /\ node[Kids(cfg, n)[j]].finished
                   /\ ~node[Kids(cfg, n)[j]].running)
    /\ [][\A n \in SeriesNodes : \A i \in 1..Len(Kids(cfg, n)) :
            Committed(Kids(cfg, n)[i])
            => \A j \in 1..(i - 1) :
                   /\ node[Kids(cfg, n)[j]].finished
                   /\ ~node[Kids(cfg, n)[j]].running
                   /\ hist.commits[Kids(cfg, n)[j]] > 0
         ]_vars

\* C12 witness: the last child of the series at the root is running, the
\* children before it were each committed once and are exhausted.
C12_Witness ==
    /\ Kind(cfg, Root) = "series"
    /\ node[Kids(cfg, Root)[MaxKids]].running
    /\ \A j \in 1..(MaxKids - 1) :
         /\ node[Kids(cfg, Root)[j]].finished
         /\ hist.commits[Kids(cfg, Root)[j]] = 1
    /\ \E r \in ProcIds :
         rn[r].post = node[Kids(cfg, Root)[MaxKids]].end_point
         /\ rn[r].pc = "body"

\* run_process has returned or raised, and no leaf was pending when it was
\* called.
RunOver ==
    /\ main = "idle"
    /\ ret.op = "run_process"
    /\ drv.idle

Failed(c) ==
    \E r \in ProcIds :
        /\ rn[r].func = "sp_run"
        /\ rn[r].post = node[c].end_point
        /\ rn[r].exp = "Exception"

\* C14 (as claimed): when join of a ParallelProcess has returned true, none
\* of the children committed by the commit before it has failed.
C14_ParallelJoinTrueOnlyIfNoneFailed ==
    (/\ Kind(cfg, Root) = "parallel"
     /\ main = "idle"
     /\ ret.op = "join"
     /\ ret.val = "True")
    => \A c \in hist.last : ~Failed(c)

\* C15: a commit of a ParallelProcess commits exactly its children that are
\* neither pending nor exhausted; when none of its children is pending or
\* exhausted (a freshly reset process) all of them are pending after it; and
\* has_more() is true exactly when some child is pending or has more work.
C15_ParallelCommitsAllReady ==
    /\ [](Kind(cfg, Root) = "parallel"
          => (HasMore(Root)
              <=> \E c \in Children(Root) :
                      node[c].running \/ ~node[c].finished))
    /\ [][(Kind(cfg, Root) = "parallel" /\ CommitCall)
          => /\ \A c \in Children(Root) :
                  Committed(c) <=> (~node[c].running /\ ~node[c].finished)
             /\ hist'.last = {c \in Children(Root) : Committed(c)}
             /\ (\A c \in Children(Root) :
                     ~node[c].running /\ ~node[c].finished)
                => (\A c \in Children(Root) : node'[c].running)
         ]_vars

\* C15 witness: one commit has committed all MaxKids children of the
\* ParallelProcess, and their bodies are executing at the same time.
C15_Witness ==
    /\ Kind(cfg, Root) = "parallel"
    /\ hist.last = Children(Root)
    /\ Cardinality(Children(Root)) = MaxKids
    /\ \A c \in Children(Root) :
         /\ node[c].running
         /\ \E r \in ProcIds :
              rn[r].post = node[c].end_point /\ rn[r].pc = "body"

RECURSIVE Subtree(_)
\* Process n and the processes under it.
Subtree(n) == {n} \cup UNION {Subtree(c) : c \in Children(n)}

\* The switcher's index is one of a child.
InRange(n) == cfg.decision >= 0 /\ cfg.decision < Len(Kids(cfg, n))

\* The child self[index] of SwitchProcess n for the switcher's index.
Selected(n) == getitem(Kids(cfg, n), cfg.decision)

\* C16: within a reset cycle of a SwitchProcess the switcher is called at
\* most once, by the first commit of the cycle, and every leaf committed in
\* the cycle belongs to the child at the index the switcher returned.
C16_SwitchDecidesOnce ==
    /\ [](Kind(cfg, Root) = "switch"
          => /\ hist.switcher_calls <= 1
             /\ (hist.switcher_calls = 1 <=> node[Root].decided)
             /\ \A c \in Leaves(cfg) :
                  hist.commits[c] > 0
                  => /\ has_item(Kids(cfg, Root), cfg.decision)
                     /\ c \in Subtree(Selected(Root)))
    /\ [][(Kind(cfg, Root) = "switch" /\ CommitCall)
          => /\ hist'.switcher_calls = 1
             /\ hist'.switcher_calls > hist.switcher_calls
                  <=> ~node[Root].decided
         ]_vars

\* C16 witness: in a second reset cycle the switcher was called once, its
\* child was committed, and a further commit has been made.
C16_Witness ==
    /\ Kind(cfg, Root) = "switch"
    /\ InRange(Root)
    /\ hist.switcher_calls = 1
    /\ nextPoint > 2
    /\ hist.commits[Selected(Root)] = 1
    /\ ret = [op |-> "commit", val |-> "False"]

\* C17 (as claimed): a commit on a SwitchProcess whose selected child is not
\* pending and still has more work, no body having raised, commits a leaf of
\* that child.
C17_SwitchDelegatesLaterCommits ==
    [][(/\ Kind(cfg, Root) = "switch"
        /\ CommitCall
        /\ node[Root].current # 0
        /\ ~IsPending(node[Root].current)
        /\ HasMore(node[Root].current)
        /\ ~hist.raised)
       => \E c \in Subtree(node[Root].current) : Committed(c)]_vars

\* C18 (as claimed): when the first commit of a cycle of a SwitchProcess
\* gets an index outside 0..len-1 from the switcher, no child is committed
\* and the commit does not return: an error is raised to its caller.
C18_SwitchIndexErrorRaised ==
    [][(/\ Kind(cfg, Root) = "switch"
        /\ ProcessCommit
        /\ ~node[Root].decided
        /\ ~InRange(Root))
       => /\ \A c \in Leaves(cfg) : ~Committed(c)
          /\ ret'.val \notin {"True", "False"}]_vars

\* The sweeper is called in this step.
SweeperCalled == hist'.sweeper_index # hist.sweeper_index
                 \/ hist'.sweeper_calls > hist.sweeper_calls

\* The sweeper has returned false since the last reset().
SweeperSaidStop == hist.sweeper_calls > hist.sweeper_trues

\* This step is a reset() of the root: the caller's own, or the one
\* run_process begins with.
ResetCall == ProcessReset \/ RunTree

\* C19: the sweeper of a SweepProcess is called only by a commit made while
\* the process is not in its loop; once it has returned false, has_more() is
\* false, and until the next reset() it stays false, no commit commits the
\* body, and the sweeper is not called again.
C19_SweepStopsForGood ==
    /\ [](Kind(cfg, Root) = "sweep" /\ SweeperSaidStop
          => /\ ~HasMore(Root)
             /\ hist.sweeper_calls = hist.sweeper_trues + 1)
    /\ [][Kind(cfg, Root) = "sweep"
          => /\ SweeperCalled => (CommitCall /\ ~node[Root].in_loop)
             /\ (SweeperSaidStop /\ ~ResetCall)
                => /\ ~SweeperCalled
                   /\ \A c \in Leaves(cfg) : ~Committed(c)
                   /\ ~Process_has_more(cfg, node', Root)
         ]_vars

\* C19 witness: the sweeper returned true, the body ran, the sweeper then
\* returned false, and a commit made after that returned false; the sweeper
\* has been called twice in all.
C19_Witness ==
    /\ Kind(cfg, Root) = "sweep"
    /\ hist.sweeper_trues = 1
    /\ hist.sweeper_calls = 2
    /\ hist.commits[Kids(cfg, Root)[1]] = 1
    /\ node[Kids(cfg, Root)[1]].finished
    /\ node[Root].finished
    /\ ret = [op |-> "commit", val |-> "False"]

\* The body of the SweepProcess at the root.
Body == Kids(cfg, Root)[1]

\* run_process is driving a SweepProcess whose body was not pending when it
\* was called, and no body has raised.
SweepRun ==
    /\ Kind(cfg, Root) = "sweep"
    /\ drv.idle
    /\ ~hist.raised

C21_CommitWhilePendingDoesNothing ==
    [][(CommitCall /\ IsPending(Root))
       => /\ ProcessCommit => ret'.val = "False"
          /\ \A c \in Leaves(cfg) : ~Committed(c)
          /\ nextRunner' = nextRunner
          /\ nextPoint' = nextPoint
          /\ runners' = runners
      ]_vars

\* The body of leaf n ends in this step.
BodyEnds(n) == node[n].running /\ ~node'[n].running

\* The runner of the last commit of leaf n.
RunnerOf(n) == {r \in ProcIds : rn[r].func = "sp_run"
                                /\ rn[r].post = node[n].end_point}

\* C22: a SimpleProcess has more until its body returns in a run that was
\* not aborted; reset() on a pending one raises _aborting and changes
\* nothing else, neither of the process nor of the scheduler (the runner is
\* not cancelled); when the body of an aborted run ends the process is not
\* pending, _aborting is cleared and has_more() is still true; the flag is
\* only ever up on a pending process.
C22_AbortedRunIsNotFinished ==
    /\ [](\A n \in Leaves(cfg) :
            /\ node[n].aborting => node[n].running
            /\ HasMore(n) <=> ~node[n].finished
            /\ node[n].running
               => (~node[n].finished
                   /\ \A r \in RunnerOf(n) : ~rn[r].cancelReq))
    /\ [][\A n \in Leaves(cfg) :
            /\ (ResetCall /\ node[n].running)
               => /\ node'[n] = [node[n] EXCEPT !.aborting = TRUE]
                  /\ UNCHANGED schedVars
            /\ (BodyEnds(n) /\ node[n].aborting)
               => /\ ~Process_is_pending(cfg, node', n)
                  /\ ~node'[n].aborting
                  /\ Process_has_more(cfg, node', n)
            /\ (BodyEnds(n) /\ ~node[n].aborting)
               => (Process_has_more(cfg, node', n)
                   <=> \E r \in RunnerOf(n) : rn'[r].exp = "Exception")
            /\ (HasMore(n) /\ ~Process_has_more(cfg, node', n))
               => (BodyEnds(n) /\ ~node[n].aborting)
         ]_vars

\* C22 witness: a leaf was reset while pending, the caller then joined it,
\* and during that wait its body has returned without error: the leaf is not
\* pending, not aborting, and not finished.
C22_Witness ==
    \E n \in Leaves(cfg) : \E r \in RunnerOf(n) :
        /\ main = "wait_join"
        /\ waiter.point = node[n].end_point
        /\ rn[r].pc = "done"
        /\ rn[r].status = "True"
        /\ ~node[n].running
        /\ ~node[n].aborting
        /\ ~node[n].finished

\* A non-empty key that names no point of the point map.
BadKey(k) == k # EmptyKey /\ k \notin points

\* C23: on a running scheduler, commit_action with a begin or end key that
\* is not empty and names no point of the map raises ValueError and changes
\* nothing of the scheduler; with each key empty or naming a point of the
\* map it returns true and creates one runner, registered on exactly the
\* points its non-empty keys name. A runner with no begin point goes to its
\* body at its first step without waiting for anything.
C23_UnknownKeyRejectedEmptyKeyAccepted ==
    /\ [][\A b \in Keys, e \in Keys, th \in BOOLEAN :
            (CommitAction(b, e, th) /\ running)
            => IF BadKey(b) \/ BadKey(e)
               THEN /\ ret'.val = "ValueError"
                    /\ UNCHANGED schedVars
               ELSE /\ ret'.val = "True"
                    /\ runners' = runners \cup {nextRunner}
                    /\ nextRunner' = nextRunner + 1
                    /\ rn'[nextRunner].prev = b
                    /\ rn'[nextRunner].post = e
                    /\ rn'[nextRunner].pc = "created"
                    /\ \A p \in PointIds :
                         /\ pt'[p].posts =
                              IF p = b THEN pt[p].posts \cup {nextRunner}
                              ELSE pt[p].posts
                         /\ pt'[p].previous =
                              IF p = e THEN pt[p].previous \cup {nextRunner}
                              ELSE pt[p].previous
                         /\ pt'[p].count =
                              IF p = e THEN pt[p].count + 1 ELSE pt[p].count
                         /\ pt'[p].future = pt[p].future
                    /\ points' = points
         ]_vars
    /\ [][\A r \in RunnerIds :
            (RunnerStart(r) /\ rn[r].prev = EmptyKey)
            => rn'[r].pc \in {"body", "thread"}]_vars

\* C23 witness: on a running scheduler an action with two empty keys was
\* committed and is in the runner map, and a commit with a key that names no
\* point has then raised ValueError: the only point of the map has no
\* registration.
C23_Witness ==
    /\ running
    /\ ret = [op |-> "commit_action", val |-> "ValueError"]
    /\ points = {1}
    /\ runners = {1}
    /\ rn[1].prev = EmptyKey
    /\ rn[1].post = EmptyKey
    /\ pt[1].posts = {}
    /\ pt[1].previous = {}

\* C24: while the scheduler is not running, commit_action returns false and
\* wait_point raises RuntimeError; on a running scheduler wait_point raises
\* ValueError for the empty key and for a key that names no point of the
\* map; none of these calls changes the scheduler, and the failed wait_point
\* does not run the event loop.
C24_FailFastWhenNotRunning ==
    /\ [][\A b \in Keys, e \in Keys, th \in BOOLEAN :
            (CommitAction(b, e, th) /\ ~running)
            => /\ ret'.val = "False"
               /\ UNCHANGED schedVars
         ]_vars
    /\ [][\A k \in Keys, t \in Timeouts :
            (WaitPoint(k, t) /\ (~running \/ k = EmptyKey \/ k \notin points))
            => /\ ret'.val = IF ~running THEN "RuntimeError"
                             ELSE "ValueError"
               /\ main' = "idle"
               /\ waiter' = waiter
               /\ UNCHANGED schedVars
         ]_vars

\* C24 witness: stop() has cancelled a runner in flight, and a wait_point
\* called after it has raised RuntimeError.
C24_Witness ==
    /\ ~running
    /\ ret = [op |-> "wait_point", val |-> "RuntimeError"]
    /\ points = {}
    /\ runners = {}
    /\ \E r \in RunnerIds : rn[r].cancelReq

\* C25: acquire_points(n) with n > 0 returns n keys, pairwise distinct and
\* none of them the key of a point created before, and adds exactly these n
\* points, pending and without registration, to the point map, leaving every
\* other point and the runners as they were; with n <= 0 it raises TypeError
\* and changes nothing of the scheduler.
C25_AcquirePointsFreshKeys ==
    [][\A n \in Counts :
         AcquirePoints(n)
         => IF n > 0
            THEN /\ ret'.val = "keys"
                 /\ Len(ret'.keys) = n
                 /\ \A i \in 1..n : \A j \in 1..n :
                      i # j => ret'.keys[i] # ret'.keys[j]
                 /\ \A i \in 1..n : ret'.keys[i] \notin Acquired
                 /\ points' = points \cup {ret'.keys[i] : i \in 1..n}
                 /\ Cardinality(points') = Cardinality(points) + n
                 /\ \A p \in PointIds :
                      pt'[p] = IF p \in points' \ points THEN NewPoint
                               ELSE pt[p]
                 /\ UNCHANGED <<running, runners, rn>>
            ELSE /\ ret'.val = "TypeError"
                 /\ UNCHANGED schedVars
      ]_vars

\* C25 witness: the first point acquired has resolved and was dropped by
\* clear_done_points, and acquire_points(1) has then returned a key that is
\* not the dropped one.
C25_Witness ==
    /\ ret.op = "acquire_points"
    /\ ret.val = "keys"
    /\ ret.keys = <<2>>
    /\ points = {2}
    /\ pt[1].future # "pending"
    /\ pt[2] = NewPoint

\* C26 (as claimed): on a running scheduler, wait_point on the key of an
\* acquired point that has resolved returns at once, without running the
\* event loop, with the point's status: true for a point that succeeded,
\* false for one that failed with an error or was cancelled.
C26_WaitOnResolvedReturnsStatus ==
    [][\A k \in Acquired, t \in Timeouts :
         (WaitPoint(k, t) /\ running /\ pt[k].future # "pending")
         => /\ main' = "idle"
            /\ ret'.val = IF pt[k].future = "result" THEN "True" ELSE "False"
            /\ UNCHANGED schedVars
      ]_vars

\* C27: clear_done_points() takes out of the point map exactly the points
\* that are resolved; every point, pending or not, is itself left as it was
\* (status, pending count, registrations), and the runner map, the runners
\* and the running flag are unchanged.
C27_ClearDropsExactlyResolved ==
    [][ClearDonePoints
       => /\ points' = {p \in points : pt[p].future = "pending"}
          /\ \A p \in points :
               pt[p].future = "pending"
               => (/\ p \in points'
                   /\ status(pt', p) = "None"
                   /\ pt'[p].count = pt[p].count)
          /\ pt' = pt
          /\ UNCHANGED <<running, runners, rn, nextPoint, nextRunner>>
      ]_vars

\* C27 witness: an action from point p to point q was committed while both
\* were in the map; p has since succeeded and clear_done_points() has
\* dropped it, while q, still pending with that action registered, is kept.
C27_Witness ==
    \E p \in PointIds, q \in PointIds, r \in RunnerIds :
        /\ ret.op = "clear_done_points"
        /\ rn[r].prev = p
        /\ rn[r].post = q
        /\ p # q
        /\ pt[p].future = "result"
        /\ points = {q}
        /\ pt[q].future = "pending"
        /\ pt[q].count = 1
        /\ r \in runners

----------------------------------------------------------------------------
\* The flow of the scheduler module's demo (__main__ of impl_scheduler.py):
\* the caller starts the scheduler, acquires points and commits actions
\* between them, then waits for the final point of every flow and looks at
\* the snapshot. The caller's position is kept in drv: mode "build", then
\* "wait" with the final points still to be waited for in stack, then "done"
\* (every wait returned true) or "failed" (a wait returned false or raised).

\* Bounds of the flow model: points acquired and actions committed.
MaxFlowPoints == 3
MaxFlowActions == 3

FlowPointIds == 1..MaxFlowPoints
FlowRunnerIds == 1..MaxFlowActions

\* The state after get_scheduler() and scheduler.start().
FlowInit ==
    /\ running = TRUE
    /\ points = {}
    /\ runners = {}
    /\ pt = [p \in FlowPointIds |-> NewPoint]
    /\ rn = [r \in FlowRunnerIds |-> NoRunner]
    /\ nextPoint = 1
    /\ nextRunner = 1
    /\ main = "idle"
    /\ waiter = NoWaiter
    /\ ret = NoRet
    /\ sp = NewProcess
    /\ cfg = NoTree
    /\ node = <<>>
    /\ drv = [NoDrive EXCEPT !.mode = "build"]
    /\ hist = NoHist

RECURSIVE Leads(_, _, _, _)
\* Some path of at most n actions of R leads from point a to point b.
Leads(R, a, b, n) ==
    /\ n > 0
    /\ \E r \in DOMAIN R :
         /\ R[r].prev = a
         /\ R[r].post # 0
         /\ (R[r].post = b \/ Leads(R, R[r].post, b, n - 1))

\* points = scheduler.acquire_points(...), a point at a time.
FlowAcquire ==
    /\ drv.mode = "build"
    /\ nextPoint <= MaxFlowPoints
    /\ SetSched(acquire_point(Sched).S)
    /\ ret' = [op |-> "acquire_point", val |-> "key"]
    /\ UNCHANGED <<main, waiter, sp, procVars>>

\* scheduler.commit_action(Action(begin, end, thread, mock_event, ...)) with
\* keys that are empty or were acquired, the graph staying acyclic.
FlowCommit(begin, end, thread) ==
    /\ drv.mode = "build"
    /\ nextRunner <= MaxFlowActions
    /\ begin \in {EmptyKey} \cup points
    /\ end \in {EmptyKey} \cup points
    /\ begin # EmptyKey => (begin # end
                            /\ ~Leads(rn, end, begin, MaxFlowActions))
    /\ LET c == commit_action(Sched, begin, end, thread, "user")
       IN /\ SetSched(c.S)
          /\ ret' = [op |-> "commit_action", val |-> c.val]
    /\ UNCHANGED <<main, waiter, sp, procVars>>

\* The points of the graph no action starts from.
FinalPoints == {p \in points : pt[p].posts = {}}

\* The orders in which the points of F can be waited for.
Orders(F) ==
    {o \in [1..Cardinality(F) -> F] :
        \A i \in 1..Cardinality(F) : \A j \in 1..Cardinality(F) :
            i # j => o[i] # o[j]}

\* The graph is built, every point of it with an incoming action: the
\* caller goes on to `for idx, point in enumerate(end_points)`.
FlowRun(order) ==
    /\ drv.mode = "build"
    /\ runners # {}
    /\ \A p \in points : pt[p].previous # {}
    /\ FinalPoints # {}
    /\ order \in Orders(FinalPoints)
    /\ drv' = [drv EXCEPT !.mode = "wait", !.stack = order]
    /\ ret' = [op |-> "run", val |-> "None"]
    /\ UNCHANGED <<schedVars, main, waiter, sp, cfg, node, hist>>

\* How the loop over end_points goes on once wait_point has returned or
\* raised v: `assert(scheduler.wait_point(point))`.
FlowAfterWait(v) ==
    /\ drv' = IF v = "True"
              THEN [drv EXCEPT !.stack = Tail(@), !.ticks = @ + 1]
              ELSE [drv EXCEPT !.mode = "failed"]
    /\ ret' = [op |-> "assert", val |-> v]

\* The next wait_point of the loop, or, past the loop, the snapshot.
FlowWait ==
    /\ drv.mode = "wait"
    /\ main = "idle"
    /\ ret.op # "wait_point"
    /\ IF drv.stack = <<>>
       THEN /\ drv' = [drv EXCEPT !.mode = "done"]
            /\ ret' = [op |-> "snapshot", val |-> "None"]
            /\ UNCHANGED <<main, waiter>>
       ELSE LET w == wait_point(Sched, Head(drv.stack))
            IN IF w = "block"
               THEN /\ main' = "wait_api"
                    /\ waiter' = [point |-> Head(drv.stack),
                                  timeout |-> "None", pc |-> "start"]
                    /\ ret' = [op |-> "wait_point", val |-> "blocked"]
                    /\ UNCHANGED drv
               ELSE /\ FlowAfterWait(w)
                    /\ UNCHANGED <<main, waiter>>
    /\ UNCHANGED <<schedVars, sp, cfg, node, hist>>

\* The wait_point that ran the event loop has returned or raised.
FlowWaitReturn ==
    /\ drv.mode = "wait"
    /\ main = "idle"
    /\ ret.op = "wait_point"
    /\ FlowAfterWait(ret.val)
    /\ UNCHANGED <<schedVars, main, waiter, sp, cfg, node, hist>>

FlowNext ==
    \/ FlowAcquire
    \/ \E b \in 0..MaxFlowPoints, e \in 0..MaxFlowPoints, th \in BOOLEAN :
         FlowCommit(b, e, th)
    \/ \E o \in Orders(FinalPoints) : FlowRun(o)
    \/ FlowWait
    \/ FlowWaitReturn
    \/ WaitStart
    \/ WaitWake
    \/ \E r \in FlowRunnerIds : RunnerStart(r)
    \/ \E r \in FlowRunnerIds : RunnerWake(r)
    \/ \E r \in FlowRunnerIds, ok \in BOOLEAN : BodyEnd(r, ok)
    \/ \E r \in FlowRunnerIds : ThreadEnd(r)
    \/ \E r \in FlowRunnerIds : Callback(r)

FlowSpec == FlowInit /\ [][FlowNext]_vars

\* Every wait_point of the loop over the final points has returned true.
FlowDone == drv.mode = "done"

\* snap['action_count'] == 0 and snap['active_point_count'] == 0
Quiescent ==
    /\ runners = {}
    /\ \A p \in points : pt[p].future # "pending"

\* Every action committed has an end point.
AllActionsEnd == \A r \in FlowRunnerIds : r < nextRunner => rn[r].post # 0

\* No body has raised.
NoBodyRaised == \A r \in FlowRunnerIds : rn[r].exp # "Exception"

\* A runner leaves the runner map in its done callback, which runs once its
\* task is over, and a point succeeds only in the done callback of one of
\* its incoming runners, which has left the runner map by then.
RemovedBeforeEndPointResolves ==
    /\ [](\A r \in FlowRunnerIds :
            /\ (r \in runners /\ rn[r].pc = "done") => rn[r].cbPending
            /\ (r < nextRunner /\ r \notin runners)
               => (rn[r].pc = "done" /\ ~rn[r].cbPending))
    /\ [][\A p \in FlowPointIds :
            (pt[p].future = "pending" /\ pt'[p].future = "result")
            => \E r \in FlowRunnerIds :
                  /\ Reports(r)
                  /\ rn[r].post = p
                  /\ rn[r].pc = "done"
                  /\ r \notin runners'
         ]_vars

\* C28 (as claimed): for an acyclic graph of committed actions in which
\* every point has an incoming action and no body raises, once wait_point
\* has returned true for every final point the scheduler has no runner in
\* its map and no pending point; runners leave the map when their task is
\* over, before their end point resolves.
C28_QuiescentAfterFinalWaits ==
    /\ []((FlowDone /\ NoBodyRaised) => Quiescent)
    /\ RemovedBeforeEndPointResolves

\* C28 (amended): the same for a graph in which, moreover, every action has
\* an end point.
C28_QuiescentWhenEveryActionEnds ==
    /\ []((FlowDone /\ NoBodyRaised /\ AllActionsEnd) => Quiescent)
    /\ RemovedBeforeEndPointResolves

\* C28 witness: two actions feed one point, a third goes from that point to
\* the final point, and the wait for the final point has returned true: the
\* runner map is empty and no point is pending.
C28_Witness ==
    /\ FlowDone
    /\ AllActionsEnd
    /\ NoBodyRaised
    /\ Quiescent
    /\ nextRunner = MaxFlowActions + 1
    /\ \E p \in points, q \in points :
         /\ Cardinality(pt[p].previous) = 2
         /\ Cardinality(pt[p].posts) = 1
         /\ pt[q].previous = pt[p].posts
         /\ q \in FinalPoints

----------------------------------------------------------------------------
\* Point p fails in this step with the error reported by runner r.
FailsBy(p, r) ==
    /\ Reports(r)
    /\ rn[r].post = p
    /\ pt[p].future = "pending"
    /\ pt'[p].future = "exception"

\* C29: when a point fails because an incoming action reports an error, that
\* step changes no other runner (none is cancelled, none leaves the runner
\* map); a runner's cancellation is only ever requested by stop(); and a
\* later report of another incoming action leaves the failed point as it is,
\* status, stored error and pending count.
C29_SiblingsOfFailedPointKeepRunning ==
    [][/\ \A p \in PointIds, r \in RunnerIds :
            FailsBy(p, r)
            => /\ pt'[p].exc = r
               /\ \A o \in RunnerIds \ {r} :
                    /\ rn'[o] = rn[o]
                    /\ o \in runners => o \in runners'
       /\ \A o \in RunnerIds :
            (~rn[o].cancelReq /\ rn'[o].cancelReq) => Stop
       /\ \A p \in PointIds, o \in RunnerIds :
            (/\ pt[p].future = "exception"
             /\ Reports(o)
             /\ rn[o].post = p)
            => pt'[p] = pt[p]
      ]_vars

\* C29 witness: a and b feed p; p failed with the error of a while b had not
\* reported; b then ran its body to the end and reported success, which left
\* p failed with the error of a and its pending count at two.
C29_Witness ==
    \E p \in PointIds, a \in RunnerIds, b \in RunnerIds :
        /\ a # b
        /\ pt[p].previous = {a, b}
        /\ pt[p].future = "exception"
        /\ pt[p].exc = a
        /\ pt[p].count = 2
        /\ rn[b].bodyRuns = 1
        /\ rn[b].status = "True"
        /\ rn[b].reported = "finish"
        /\ ~rn[b].cancelReq

\* C30 (as claimed): a runner that is waiting on its begin point when that
\* point fails with an error, and which stop() has not cancelled, is not
\* ended by that failure, and a runner whose task was ended by the failure
\* of its begin point does not cancel its end point.
C30_DownstreamOfFailedPointNotCancelled ==
    /\ [][\A d \in RunnerIds :
            (/\ rn[d].pc = "waitprev"
             /\ pt[rn[d].prev].future = "exception"
             /\ ~rn[d].cancelReq)
            => rn'[d].pc # "done"]_vars
    /\ [](\A d \in RunnerIds :
            rn[d].task = "raised" => rn[d].reported # "cancel")

----------------------------------------------------------------------------
\* The child of series n at its _index, when the index is on a child.
CurrentChild(n) == Kids(cfg, n)[node[n].index + 1]

\* C31: has_more() of a SeriesProcess is true exactly when its index is on a
\* child and that child is pending or has more work, or a child after it
\* exists; so it is false when the index is past the last child, and when
\* the index is on the last child and that child is exhausted.
C31_SeriesHasMoreIff ==
    \A n \in SeriesNodes :
        /\ HasMore(n)
           <=> /\ node[n].index < Len(Kids(cfg, n))
               /\ \/ IsPending(CurrentChild(n))
                  \/ HasMore(CurrentChild(n))
                  \/ node[n].index + 1 < Len(Kids(cfg, n))
        /\ node[n].index >= Len(Kids(cfg, n)) => ~HasMore(n)
        /\ (/\ node[n].index = Len(Kids(cfg, n)) - 1
            /\ ~node[CurrentChild(n)].running
            /\ node[CurrentChild(n)].finished)
           => ~HasMore(n)

\* C31 witness: the index of the series at the root is on its first child,
\* which has run and is exhausted, and has_more() is true because of the
\* children after it.
C31_Witness ==
    /\ Kind(cfg, Root) = "series"
    /\ node[Root].index = 0
    /\ ~node[CurrentChild(Root)].running
    /\ node[CurrentChild(Root)].finished
    /\ Len(Kids(cfg, Root)) > 1
    /\ HasMore(Root)

\* C32 (as claimed): the pending count of a point never grows once the
\* point has resolved, no incoming action is registered on a resolved point,
\* and every incoming action registered on a succeeded point has reported.
C32_NoRegistrationOnResolvedPoint ==
    /\ [][\A p \in PointIds :
            pt[p].future # "pending"
            => /\ pt'[p].count <= pt[p].count
               /\ pt'[p].previous = pt[p].previous]_vars
    /\ [](\A p \in PointIds :
            pt[p].future = "result"
            => \A r \in pt[p].previous : rn[r].reported # "none")

\* C33 (as claimed): a point with no registered incoming action is pending
\* or cancelled, never succeeded, and every succeeded point has at least one
\* registered incoming action and a pending count of zero.
C33_SucceededPointWasFedAndCountZero ==
    \A p \in PointIds :
        /\ pt[p].previous = {} => pt[p].future \in {"pending", "cancelled"}
        /\ pt[p].future = "result"
           => (pt[p].previous # {} /\ pt[p].count = 0)

\* The runners whose begin and end points lie on a cycle of committed
\* actions: a self-loop, or two actions joining two points in both directions.
OnCycle(r) ==
    /\ rn[r].func # "none"
    /\ rn[r].prev # 0
    /\ rn[r].post # 0
    /\ \/ rn[r].prev = rn[r].post
       \/ \E r2 \in RunnerIds \ {r} :
              /\ rn[r2].func # "none"
              /\ rn[r2].prev = rn[r].post
              /\ rn[r2].post = rn[r].prev

\* C34 (as claimed): no body of an action on a cycle ever runs, and a pending
\* point on a cycle leaves the pending state only in a step of stop().
C34_CycleDeadlocksUntilStop ==
    /\ [](\A r \in RunnerIds : OnCycle(r) => ~Started(r))
    /\ [][\A r \in RunnerIds :
            (/\ OnCycle(r)
             /\ pt[rn[r].prev].future = "pending"
             /\ pt'[rn[r].prev].future # "pending")
            => (running /\ ~running')]_vars

\* C35: an action whose begin point is failed or cancelled has not executed
\* its body and is not executing it, whether the point resolved before the
\* runner first waited on it or while the runner was suspended on it.
C35_NoBodyAfterFailedBeginPoint ==
    \A r \in RunnerIds :
        (/\ rn[r].func # "none"
         /\ rn[r].prev # 0
         /\ pt[rn[r].prev].future \in {"exception", "cancelled"})
        => (~Started(r) /\ rn[r].bodyRuns = 0)

\* A runner that was suspended on its begin point when the point failed: the
\* exception came out of wait and the task ended without a body run.
C35_Witness ==
    \E r \in RunnerIds :
        /\ rn[r].prev # 0
        /\ pt[rn[r].prev].future = "exception"
        /\ rn[r].pc = "done"
        /\ rn[r].task = "raised"
        /\ rn[r].bodyRuns = 0

----------------------------------------------------------------------------
\* run_process alone on a started scheduler: the caller only calls
\* run_process, its commits and joins drive the event loop, and every body
\* ends. The loop of run_process, the wait task of a join, the runner tasks
\* and their done callbacks are never held back forever; when to call
\* run_process is the caller's choice.

RunNext ==
    \/ RunTree
    \/ RunTreeLoop
    \/ JoinWaitStart
    \/ JoinWaitWake
    \/ \E r \in ProcIds : RunnerStart(r)
    \/ \E r \in ProcIds, ok \in BOOLEAN : LeafBodyEnd(r, ok)
    \/ \E r \in ProcIds : Callback(r)

\* The guard of RunTreeLoop.
RunTreeLoopEnabled ==
    /\ main = "rp_loop"
    /\ drv.mode = "run"
    /\ Process_has_more(cfg, node, Root)
       => /\ drv.ticks < MaxTicks
          /\ Process_commit(
                 cfg,
                 [N |-> node, S |-> Sched, H |-> [hist EXCEPT !.last = {}]],
                 Root).X.S.nextPoint <= MaxCommits + 1

\* Weak fairness of RunTreeLoop is written out with its guard (every step of
\* RunTreeLoop changes main or drv).
RunFairness ==
    /\ \/ []<>(~RunTreeLoopEnabled)
       \/ []<><<RunTreeLoop>>_vars
    /\ WF_vars(JoinWaitStart)
    /\ WF_vars(JoinWaitWake)
    /\ WF_vars(\E r \in ProcIds : RunnerStart(r))
    /\ WF_vars(\E r \in ProcIds, ok \in BOOLEAN : LeafBodyEnd(r, ok))
    /\ WF_vars(\E r \in ProcIds : Callback(r))

\* ParallelProcess([SweepProcess(sweeper, leaf)])
ParallelOfSweep ==
    <<[kind |-> "parallel", kids |-> <<2>>],
      [kind |-> "sweep", kids |-> <<3>>], Leaf>>

\* The trees run_process is called on: those above, and a sweep inside a
\* parallel process.
RunConfigs ==
    Configs
    \cup {[tree |-> ParallelOfSweep, decision |-> 0, plan |-> p,
           asserts |-> TRUE] : p \in Plans}

\* The state after the tree is built and scheduler.start() was called.
RunInit ==
    /\ running = TRUE
    /\ points = {}
    /\ runners = {}
    /\ pt = [p \in ProcIds |-> NewPoint]
    /\ rn = [r \in ProcIds |-> NoRunner]
    /\ nextPoint = 1
    /\ nextRunner = 1
    /\ main = "idle"
    /\ waiter = NoWaiter
    /\ ret = NoRet
    /\ sp = NewProcess
    /\ cfg \in RunConfigs
    /\ node = [n \in Nodes(cfg) |-> NewNode]
    /\ drv = NoDrive
    /\ hist = [NoHist EXCEPT !.commits = [n \in Nodes(cfg) |-> 0]]

RunSpec == RunInit /\ [][RunNext]_vars /\ RunFairness

\* The switcher's index is in range (every tree without a switch has the
\* decision 0).
DecisionInRange ==
    \A n \in Nodes(cfg) :
        Kind(cfg, n) = "switch"
        => (cfg.decision >= 0 /\ cfg.decision < Len(Kids(cfg, n)))

\* run_process is in its driver loop, in its first call on the new tree.
FirstRun ==
    /\ drv.mode = "run"
    /\ main = "rp_loop"
    /\ drv.ticks = 0
    /\ nextPoint = 1

\* C36 (as claimed): with a decision in range and no body raising, the driver
\* loop of run_process, once entered, is eventually left.
C36_RunProcessTerminates ==
    (DecisionInRange /\ FirstRun) ~> (drv.mode = "none" \/ hist.raised)

\* C37 (as claimed): when run_process has returned and no leaf body raised,
\* it has returned success and has_more() is false.
C37_RunReturnsSuccessUnlessBodyRaised ==
    (DecisionInRange /\ RunOver /\ ~hist.raised)
        => (ret.val = "True" /\ ~HasMore(Root))

----------------------------------------------------------------------------
\* A SimpleProcess used directly: the caller sets its begin point, commits it
\* and resets it itself, next to its own calls of the scheduler.

\* The begin_point setter, with a key the caller holds: refused while the
\* process is pending.
SetBeginPoint(key) ==
    /\ main = "idle"
    /\ key < nextPoint
    /\ IF sp.running
       THEN /\ ret' = [op |-> "begin_point", val |-> "RuntimeError"]
            /\ UNCHANGED sp
       ELSE /\ sp' = [sp EXCEPT !.begin_point = key]
            /\ ret' = [op |-> "begin_point", val |-> "None"]
    /\ UNCHANGED <<schedVars, main, waiter, procVars>>

\* process.commit(scheduler) on the SimpleProcess.
SimpleCommit ==
    /\ main = "idle"
    /\ nextPoint <= MaxPoints
    /\ nextRunner <= MaxRunners
    /\ LET c == commit(sp, Sched)
       IN /\ SetSched(c.S)
          /\ sp' = c.q
          /\ ret' = [op |-> "commit", val |-> c.val]
    /\ UNCHANGED <<main, waiter, procVars>>

\* process.reset() on the SimpleProcess.
SimpleReset ==
    /\ main = "idle"
    /\ sp' = reset(sp)
    /\ ret' = [op |-> "reset", val |-> "None"]
    /\ UNCHANGED <<schedVars, main, waiter, procVars>>

LeafNext ==
    \/ Start
    \/ Stop
    \/ AcquirePoint
    \/ \E e \in Keys : CommitAction(EmptyKey, e, FALSE)
    \/ \E k \in Keys : WaitPoint(k, "None")
    \/ \E k \in Keys : SetBeginPoint(k)
    \/ SimpleCommit
    \/ SimpleReset
    \/ WaitStart
    \/ WaitWake
    \/ \E r \in RunnerIds : RunnerStart(r)
    \/ \E r \in RunnerIds : RunnerWake(r)
    \/ \E r \in RunnerIds, ok \in BOOLEAN : BodyEnd(r, ok)
    \/ \E r \in RunnerIds : RunnerCancelled(r)
    \/ \E r \in RunnerIds : Callback(r)

LeafSpec == Init /\ [][LeafNext]_vars

\* The end point of the action the SimpleProcess committed last is resolved.
EndPointResolved ==
    /\ sp.end_point # EmptyKey
    /\ pt[sp.end_point].future # "pending"

\* C38 (as claimed): once the end point of the action a SimpleProcess
\* committed last has resolved, the process is not pending.
C38_ResolvedEndPointMeansNotPending ==
    EndPointResolved => ~sp.running

----------------------------------------------------------------------------
\* An acyclic graph of actions whose event loop keeps being driven: the graph
\* is built as above, then the caller stays inside run_until_complete (a
\* wait on work of its own that does not end), so that the tasks of the
\* runners and their done callbacks are never held back forever. Every body
\* ends, normally or with an error.

\* The graph is built and the loop starts running.
FlowDrive ==
    /\ drv.mode = "build"
    /\ runners # {}
    /\ drv' = [drv EXCEPT !.mode = "drive"]
    /\ main' = "wait_other"
    /\ ret' = [op |-> "wait_point", val |-> "blocked"]
    /\ UNCHANGED <<schedVars, waiter, sp, cfg, node, hist>>

DriveNext ==
    \/ FlowAcquire
    \/ \E b \in 0..MaxFlowPoints, e \in 0..MaxFlowPoints, th \in BOOLEAN :
         FlowCommit(b, e, th)
    \/ FlowDrive
    \/ \E r \in FlowRunnerIds : RunnerStart(r)
    \/ \E r \in FlowRunnerIds : RunnerWake(r)
    \/ \E r \in FlowRunnerIds, ok \in BOOLEAN : BodyEnd(r, ok)
    \/ \E r \in FlowRunnerIds : ThreadEnd(r)
    \/ \E r \in FlowRunnerIds : Callback(r)

DriveFairness ==
    /\ WF_vars(\E r \in FlowRunnerIds : RunnerStart(r))
    /\ WF_vars(\E r \in FlowRunnerIds : RunnerWake(r))
    /\ WF_vars(\E r \in FlowRunnerIds, ok \in BOOLEAN : BodyEnd(r, ok))
    /\ WF_vars(\E r \in FlowRunnerIds : ThreadEnd(r))
    /\ WF_vars(\E r \in FlowRunnerIds : Callback(r))

DriveSpec == FlowInit /\ [][DriveNext]_vars /\ DriveFairness

\* Every point with a registered incoming action is resolved, and no runner
\* is left in the runner map.
AllResolved ==
    /\ \A p \in points : pt[p].previous # {} => pt[p].future # "pending"
    /\ runners = {}

\* Every acquired point has a registered incoming action.
AllFed == \A p \in points : pt[p].previous # {}

\* No action leads from a failed or cancelled point to a succeeded one.
FailureGoesDownstream ==
    \A r \in FlowRunnerIds :
        (/\ rn[r].func # "none"
         /\ rn[r].prev # EmptyKey
         /\ rn[r].post # EmptyKey
         /\ pt[rn[r].prev].future \in {"exception", "cancelled"})
        => pt[rn[r].post].future # "result"

\* C39 (as claimed): once the loop is driven, every point with a registered
\* incoming action eventually resolves and no runner stays live, and a
\* point downstream of a failed point never succeeds.
C39_EveryFedPointResolves ==
    /\ drv.mode = "drive" ~> AllResolved
    /\ [](drv.mode = "drive" => FailureGoesDownstream)

\* C39 (amended): the same for a graph in which every acquired point has a
\* registered incoming action.
C39_EveryPointResolvesWhenAllFed ==
    /\ (drv.mode = "drive" /\ AllFed) ~> AllResolved
    /\ [](drv.mode = "drive" => FailureGoesDownstream)

\* C39 witness: a point has failed, the point downstream of it is cancelled,
\* every point is resolved and the runner map is empty.
C39_Witness ==
    /\ drv.mode = "drive"
    /\ AllFed
    /\ AllResolved
    /\ \E r \in FlowRunnerIds :
         /\ rn[r].prev # EmptyKey
         /\ rn[r].post # EmptyKey
         /\ pt[rn[r].prev].future = "exception"
         /\ pt[rn[r].post].future = "cancelled"

\* The runner was committed and is no longer in the runner map: its done
\* callback has popped it, or stop() has cleared the map.
OutOfMap(r) == rn[r].func # "none" /\ r \notin runners

\* C40: a runner that stop() took out of the runner map before its body
\* started never starts its body, whatever is called later, and its done
\* callback changes no point and neither map.
C40_StoppedRunnerNeverStarts ==
    [][\A r \in RunnerIds :
         OutOfMap(r)
         => /\ ~Started(r) => ~Started(r)'
            /\ (rn[r].cbPending /\ ~rn'[r].cbPending)
               => (pt' = pt /\ points' = points /\ runners' = runners)]_vars

\* C40 witness: the scheduler was stopped and started again, and a runner
\* that had not started was cancelled, is over without a body run, and its
\* done callback has run.
C40_Witness ==
    /\ running
    /\ \E r \in RunnerIds :
         /\ OutOfMap(r)
         /\ rn[r].cancelReq
         /\ rn[r].pc = "done"
         /\ rn[r].task = "cancelled"
         /\ ~rn[r].cbPending
         /\ rn[r].bodyRuns = 0

====
